---------------------------- MODULE Spec2Model ----------------------------
(***************************************************************************)
(* A model of the UAV flight-telemetry backend:                            *)
(*   - the record codec of the key/value log  (backend/src/serialization), *)
(*   - the log store                          (backend/src/store.rs),      *)
(*   - the flight segmenter built on it       (telemetry_kv_server/        *)
(*                                              src/storage.rs).           *)
(*                                                                         *)
(* Conventions.                                                            *)
(*   - A byte is a number in 0..255; a buffer, a file and a string are     *)
(*     sequences of bytes (strings are ASCII, so as_bytes() is the         *)
(*     sequence itself).                                                   *)
(*   - Option<T>: None is <<>>, Some(v) is <<v>>.                          *)
(*   - A Rust Result is a record whose field err is "Ok" or the name of    *)
(*     the error variant.                                                  *)
(*   - TLC's integers are 32 bits wide: a 64-bit field is encoded and      *)
(*     decoded byte by byte, and a 32-bit checksum is kept as its four     *)
(*     little-endian bytes.                                                *)
(*   - f32/f64 telemetry fields are finite (no NaN) and are counted in     *)
(*     tenths (altitudes, speeds, voltages) or in micro-degrees            *)
(*     (latitude, longitude), so that every threshold of the code is an    *)
(*     integer.                                                            *)
(***************************************************************************)
EXTENDS Integers, Sequences, FiniteSets, TLC

VARIABLES
    store,                \* the Store: [index, data]             (store.rs:11-15)
    disk,                 \* the snapshot files <base>.meta/.keys/.data
    loaded,               \* the Result<Store> of Store::load, when it was the last step
    ret,                  \* the operation last run and what it returned
    live,                 \* history: key -> value of the latest put still in force
    saved,                \* history: the live mapping of the store last saved
    current_flight_id,    \* storage.rs:14
    flight_state,         \* storage.rs:15
    landing_check_start,  \* storage.rs:16
    last_position,        \* storage.rs:17
    last_packet_time,     \* storage.rs:18
    total_distance_km,    \* storage.rs:19
    last_phase,           \* storage.rs:20
    packet,               \* the argument of the last save_packet, Some/None
    hist,                 \* history of the segmenter's run (counters, last events)
    lock,                 \* the holder of the Mutex around the TelemetryStorage (main.rs:28)
    ingest,               \* the task run_binary_client: its position and its packet
    bus,                  \* the packets sent on the broadcast channel, oldest first
    subs,                 \* the tasks handle_socket, one per subscriber
    api                   \* the tasks of the HTTP handlers that take more than one step

storeVars == <<store, disk, loaded, ret, live, saved>>
segVars == <<current_flight_id, flight_state, landing_check_start, last_position,
             last_packet_time, total_distance_km, last_phase, packet, hist>>
segVarsNoHist == <<current_flight_id, flight_state, landing_check_start, last_position,
                   last_packet_time, total_distance_km, last_phase, packet>>
srvVars == <<lock, ingest, bus, subs, api>>
vars == <<store, disk, loaded, ret, live, saved, current_flight_id, flight_state,
          landing_check_start, last_position, last_packet_time, total_distance_km,
          last_phase, packet, hist, lock, ingest, bus, subs, api>>

None == <<>>
Some(v) == <<v>>
IsSome(o) == o # <<>>
Unwrap(o) == o[1]

Max(a, b) == IF a >= b THEN a ELSE b
Min(a, b) == IF a <= b THEN a ELSE b
Abs(a) == IF a >= 0 THEN a ELSE 0 - a

(***************************************************************************)
(* Bytes and little-endian integers.                                       *)
(***************************************************************************)
\* A value no length or offset of the model reaches: what a decoded 64-bit
\* field saturates to when it does not fit TLC's integers.
TooBig == 1073741823 + 1073741824

\* byte k (1-based) of the two's complement little-endian encoding of n
LEByte(n, k) ==
    IF k = 1 THEN n % 256
    ELSE IF k = 2 THEN (n \div 256) % 256
    ELSE IF k = 3 THEN (n \div 65536) % 256
    ELSE IF k = 4 THEN (n \div 16777216) % 256
    ELSE IF n < 0 THEN 255 ELSE 0

\* uN::to_le_bytes / iN::to_le_bytes, w bytes wide
to_le_bytes(n, w) == [k \in 1..w |-> LEByte(n, k)]

\* u32/u64::from_le_bytes (as usize): the value, or TooBig beyond 2^31 - 1
u_from_le_bytes(b) ==
    IF \E k \in 1..Len(b) : (k > 4 /\ b[k] # 0) \/ (k = 4 /\ b[k] >= 128)
    THEN TooBig
    ELSE (IF Len(b) >= 1 THEN b[1] ELSE 0) + (IF Len(b) >= 2 THEN b[2] * 256 ELSE 0)
         + (IF Len(b) >= 3 THEN b[3] * 65536 ELSE 0)
         + (IF Len(b) >= 4 THEN b[4] * 16777216 ELSE 0)

\* i64::from_le_bytes, for values within TLC's integers
i64_from_le_bytes(b) ==
    IF b[8] >= 128
    THEN 0 - (u_from_le_bytes([k \in 1..8 |-> 255 - b[k]]) + 1)
    ELSE u_from_le_bytes(b)

\* &bytes[from..to] (0-based, to exclusive)
Slice(bytes, from, to) == SubSeq(bytes, from + 1, to)

(***************************************************************************)
(* calculate_crc32: crc32fast::hash, the IEEE CRC-32 (reflected polynomial *)
(* 0xEDB88320, initial value and final xor 0xFFFFFFFF), table driven; the  *)
(* 32-bit register is kept as its four little-endian bytes.                *)
(***************************************************************************)
RECURSIVE BXor(_, _)
BXor(a, b) == IF a = 0 THEN b
              ELSE IF b = 0 THEN a
              ELSE ((a + b) % 2) + 2 * BXor(a \div 2, b \div 2)

XorT == [a \in 0..255 |-> [b \in 0..255 |-> BXor(a, b)]]

Xor4(u, v) == <<XorT[u[1]][v[1]], XorT[u[2]][v[2]], XorT[u[3]][v[3]], XorT[u[4]][v[4]]>>

Shr1(u) == <<(u[1] \div 2) + (u[2] % 2) * 128, (u[2] \div 2) + (u[3] % 2) * 128,
             (u[3] \div 2) + (u[4] % 2) * 128, u[4] \div 2>>

CRC_POLY == <<32, 131, 184, 237>>

RECURSIVE CrcBits(_, _)
CrcBits(u, k) ==
    IF k = 0 THEN u
    ELSE CrcBits(IF u[1] % 2 = 1 THEN Xor4(Shr1(u), CRC_POLY) ELSE Shr1(u), k - 1)

CrcTable == [i \in 0..255 |-> CrcBits(<<i, 0, 0, 0>>, 8)]

CrcShift(t, u) == <<XorT[t[1]][u[2]], XorT[t[2]][u[3]], XorT[t[3]][u[4]], t[4]>>
CrcStep(u, b) == CrcShift(CrcTable[XorT[u[1]][b]], u)

\* the register after bytes s[lo..hi], from register u (halving keeps the
\* evaluation shallow; the register after the left half is computed first)
RECURSIVE CrcRange(_, _, _, _)
RECURSIVE CrcRest(_, _, _, _)
CrcRange(u, s, lo, hi) ==
    IF lo > hi THEN u
    ELSE IF lo = hi THEN CrcStep(u, s[lo])
    ELSE CrcRest(CrcRange(u, s, lo, (lo + hi) \div 2), s, ((lo + hi) \div 2) + 1, hi)
CrcRest(v, s, lo, hi) == IF v[1] >= 0 THEN CrcRange(v, s, lo, hi) ELSE v

CrcFinal(u) == <<255 - u[1], 255 - u[2], 255 - u[3], 255 - u[4]>>

calculate_crc32(s) == CrcFinal(CrcRange(<<255, 255, 255, 255>>, s, 1, Len(s)))

(***************************************************************************)
(* Key, Value and BorrowedEntry (types.rs): tagged sums, kept as records   *)
(* with one field per variant.                                             *)
(***************************************************************************)
TAG_TEXT == 1
TAG_INT == 2

KeyString(s) == [tag |-> TAG_TEXT, s |-> s, i |-> 0]
KeyInt(i) == [tag |-> TAG_INT, s |-> <<>>, i |-> i]
ValueString(s) == [tag |-> TAG_TEXT, s |-> s, i |-> 0]
ValueInt(i) == [tag |-> TAG_INT, s |-> <<>>, i |-> i]
EntryText(s) == [tag |-> TAG_TEXT, s |-> s, i |-> 0]
EntryInt(i) == [tag |-> TAG_INT, s |-> <<>>, i |-> i]
NoEntry == [tag |-> 0, s |-> <<>>, i |-> 0]

\* the entry a get of a stored value is expected to give
EntryOf(value) == IF value.tag = TAG_TEXT THEN EntryText(value.s) ELSE EntryInt(value.i)

(***************************************************************************)
(* Record codec (serialization/header.rs, value.rs, key.rs).               *)
(***************************************************************************)
HEADER_SIZE == 13

\* serialize_header_unsafe: the packed header copied byte for byte
serialize_header(length, checksum, tag) == to_le_bytes(length, 8) \o checksum \o <<tag>>

serialize_value(value) ==
    LET value_data == IF value.tag = TAG_TEXT
                      THEN to_le_bytes(Len(value.s), 8) \o value.s
                      ELSE to_le_bytes(value.i, 8)
    IN  serialize_header(Len(value_data), calculate_crc32(value_data), value.tag)
        \o value_data

DecodeErr(e) == [err |-> e, entry |-> NoEntry, n |-> 0]
DecodeOk(entry, n) == [err |-> "Ok", entry |-> entry, n |-> n]

\* decode_payload without the comparison of the checksums
decode_payload_unchecked(checksum, tag, value_data, n) ==
    IF Len(value_data) < 8 /\ tag \in {TAG_TEXT, TAG_INT} THEN DecodeErr("BufferTooShort")
    ELSE IF tag = TAG_TEXT THEN
        IF u_from_le_bytes(Slice(value_data, 0, 8)) = TooBig
           \/ Len(value_data) < 8 + u_from_le_bytes(Slice(value_data, 0, 8))
        THEN DecodeErr("BufferTooShort")
        ELSE IF \E k \in 9..(8 + u_from_le_bytes(Slice(value_data, 0, 8))) :
                    value_data[k] >= 128
        THEN DecodeErr("InvalidUtf8")
        ELSE DecodeOk(EntryText(Slice(value_data, 8,
                                      8 + u_from_le_bytes(Slice(value_data, 0, 8)))), n)
    ELSE IF tag = TAG_INT THEN DecodeOk(EntryInt(i64_from_le_bytes(Slice(value_data, 0, 8))), n)
    ELSE DecodeErr("UnknownTag")

\* the payload of a record whose header gave checksum and tag
decode_payload(checksum, tag, value_data, n) ==
    IF calculate_crc32(value_data) # checksum THEN DecodeErr("ChecksumMismatch")
    ELSE IF Len(value_data) < 8 /\ tag \in {TAG_TEXT, TAG_INT} THEN DecodeErr("BufferTooShort")
    ELSE IF tag = TAG_TEXT THEN
        IF u_from_le_bytes(Slice(value_data, 0, 8)) = TooBig
           \/ Len(value_data) < 8 + u_from_le_bytes(Slice(value_data, 0, 8))
        THEN DecodeErr("BufferTooShort")
        ELSE IF \E k \in 9..(8 + u_from_le_bytes(Slice(value_data, 0, 8))) :
                    value_data[k] >= 128
        THEN DecodeErr("InvalidUtf8")
        ELSE DecodeOk(EntryText(Slice(value_data, 8,
                                      8 + u_from_le_bytes(Slice(value_data, 0, 8)))), n)
    ELSE IF tag = TAG_INT THEN DecodeOk(EntryInt(i64_from_le_bytes(Slice(value_data, 0, 8))), n)
    ELSE DecodeErr("UnknownTag")

\* the record at the head of bytes, its header giving a payload of length bytes
decode_record(bytes, length) ==
    IF length = TooBig \/ Len(bytes) < HEADER_SIZE + length THEN DecodeErr("BufferTooShort")
    ELSE decode_payload(Slice(bytes, 8, 12), bytes[13],
                        Slice(bytes, HEADER_SIZE, HEADER_SIZE + length),
                        HEADER_SIZE + length)

deserialize_value(bytes) ==
    IF Len(bytes) < HEADER_SIZE THEN DecodeErr("BufferTooShort")
    ELSE decode_record(bytes, u_from_le_bytes(Slice(bytes, 0, 8)))

serialize_key(key) ==
    IF key.tag = TAG_TEXT
    THEN <<TAG_TEXT>> \o to_le_bytes(Len(key.s), 8) \o key.s
    ELSE <<TAG_INT>> \o to_le_bytes(key.i, 8)

KeyErr(e) == [err |-> e, key |-> KeyInt(0), n |-> 0]
KeyOk(key, n) == [err |-> "Ok", key |-> key, n |-> n]

decode_key_text(bytes, len) ==
    IF len = TooBig \/ Len(bytes) < 9 + len THEN KeyErr("BufferTooShort")
    ELSE IF \E k \in 10..(9 + len) : bytes[k] >= 128 THEN KeyErr("InvalidUtf8")
    ELSE KeyOk(KeyString(Slice(bytes, 9, 9 + len)), 9 + len)

deserialize_key(bytes) ==
    IF Len(bytes) = 0 THEN KeyErr("BufferTooShort")
    ELSE IF bytes[1] \notin {TAG_TEXT, TAG_INT} THEN KeyErr("UnknownTag")
    ELSE IF Len(bytes) < 9 THEN KeyErr("BufferTooShort")
    ELSE IF bytes[1] = TAG_TEXT THEN decode_key_text(bytes, u_from_le_bytes(Slice(bytes, 1, 9)))
    ELSE KeyOk(KeyInt(i64_from_le_bytes(Slice(bytes, 1, 9))), 9)

(***************************************************************************)
(* Iteration order of a HashMap (for (key, offset) in &self.index,         *)
(* self.index.keys()): unspecified, so every order is possible.  Up to     *)
(* MaxPermKeys keys every permutation is taken; beyond, one enumeration    *)
(* and its reverse.                                                        *)
(***************************************************************************)
MaxPermKeys == 3

RECURSIVE SetToSeq(_)
SetToSeq(S) ==
    IF S = {} THEN <<>>
    ELSE LET x == CHOOSE y \in S : TRUE IN <<x>> \o SetToSeq(S \ {x})

Reverse(q) == [k \in 1..Len(q) |-> q[Len(q) + 1 - k]]

IterOrders(S) ==
    IF Cardinality(S) <= MaxPermKeys
    THEN {q \in [1..Cardinality(S) -> S] : \A a, b \in 1..Cardinality(S) : a # b => q[a] # q[b]}
    ELSE {SetToSeq(S), Reverse(SetToSeq(S))}

\* the sum of q[lo..hi], by halves
RECURSIVE SumRange(_, _, _)
SumRange(q, lo, hi) ==
    IF lo > hi THEN 0
    ELSE IF lo = hi THEN q[lo]
    ELSE SumRange(q, lo, (lo + hi) \div 2) + SumRange(q, ((lo + hi) \div 2) + 1, hi)

\* the concatenation of the byte strings q[lo..hi], by halves
RECURSIVE ConcatRange(_, _, _)
ConcatRange(q, lo, hi) ==
    IF lo > hi THEN <<>>
    ELSE IF lo = hi THEN q[lo]
    ELSE ConcatRange(q, lo, (lo + hi) \div 2) \o ConcatRange(q, ((lo + hi) \div 2) + 1, hi)

(***************************************************************************)
(* The log store (store.rs).  A Store is [index, data, path]: index maps   *)
(* each live key to the offset of its record in data.                      *)
(***************************************************************************)
EmptyIndex == [k \in {} |-> 0]

\* Store::new
NewStore == [index |-> EmptyIndex, data |-> <<>>, path |-> None]

StoreErr(e, s) == [err |-> e, store |-> s, entry |-> NoEntry, n |-> 0]
StoreOk(s, entry, n) == [err |-> "Ok", store |-> s, entry |-> entry, n |-> n]

\* variant of put that takes the offset after the append instead of before it
put_offset_after_append(s, key, value) ==
    [s EXCEPT !.index = (key :> Len(s.data \o serialize_value(value))) @@ s.index,
              !.data = s.data \o serialize_value(value)]

\* Store::put: append the record, point the key at it
put(s, key, value) ==
    [s EXCEPT !.index = (key :> Len(s.data)) @@ s.index,
              !.data = s.data \o serialize_value(value)]

\* Store::get
get_decoded(s, d) ==
    IF d.err = "ChecksumMismatch" THEN StoreErr("DataCorruption", s)
    ELSE IF d.err # "Ok" THEN StoreErr("InvalidData", s)
    ELSE StoreOk(s, d.entry, 0)

get(s, key) ==
    IF key \notin DOMAIN s.index THEN StoreErr("KeyNotFound", s)
    ELSE IF s.index[key] >= Len(s.data) THEN StoreErr("InvalidData", s)
    ELSE get_decoded(s, deserialize_value(Slice(s.data, s.index[key], Len(s.data))))

\* variant of delete that also cuts the buffer at the record of the key
delete_truncating(s, key) ==
    IF key \notin DOMAIN s.index THEN StoreErr("KeyNotFound", s)
    ELSE StoreOk([s EXCEPT !.index = [k \in (DOMAIN s.index) \ {key} |-> s.index[k]],
                           !.data = Slice(s.data, 0, s.index[key])],
                 NoEntry, 0)

\* Store::delete: the key leaves the index, the buffer is untouched
delete(s, key) ==
    IF key \notin DOMAIN s.index THEN StoreErr("KeyNotFound", s)
    ELSE StoreOk([s EXCEPT !.index = [k \in (DOMAIN s.index) \ {key} |-> s.index[k]]],
                 NoEntry, 0)

\* Store::compact, the index iterated in the given order; n is bytes_reclaimed.
\* dec[k] is the decoding of the record of key order[k].
compact_copy(s, order, dec, new_data) ==
    StoreOk([s EXCEPT !.data = new_data,
                      !.index = [key \in DOMAIN s.index |->
                                    SumRange([k \in 1..Len(order) |-> dec[k].n], 1,
                                             (CHOOSE j \in 1..Len(order) : order[j] = key) - 1)]],
            NoEntry, Len(s.data) - Len(new_data))

\* the loop stops at the first key, in the order of the iteration, of which
\* the record cannot be taken: &self.data[*old_offset..] panics when the
\* offset lies beyond the buffer, deserialize_value returns an error otherwise
compact_fails(s, order, dec, k) == s.index[order[k]] > Len(s.data) \/ dec[k].err # "Ok"

compact_stop(s, order, dec) ==
    CHOOSE k \in 1..Len(order) :
        compact_fails(s, order, dec, k) /\ \A j \in 1..(k - 1) : ~compact_fails(s, order, dec, j)

compact_decoded(s, order, dec) ==
    IF \E k \in 1..Len(order) : compact_fails(s, order, dec, k)
    THEN IF s.index[order[compact_stop(s, order, dec)]] > Len(s.data)
         THEN StoreErr("panic", s)
         ELSE StoreErr("InvalidData", s)
    ELSE compact_copy(s, order, dec,
            ConcatRange([k \in 1..Len(order) |->
                            Slice(s.data, s.index[order[k]], s.index[order[k]] + dec[k].n)],
                        1, Len(order)))

\* variant of compact that rebuilds the buffer and keeps the old offsets
compact_stale_index(s, order) ==
    [compact_decoded(s, order,
        [k \in 1..Len(order) |->
            deserialize_value(Slice(s.data, s.index[order[k]], Len(s.data)))])
     EXCEPT !.store.index = s.index]

compact(s, order) ==
    compact_decoded(s, order,
        [k \in 1..Len(order) |->
            deserialize_value(Slice(s.data, s.index[order[k]], Len(s.data)))])

\* variant of clear that empties the buffer and keeps the index
clear_data_only(s) == [s EXCEPT !.data = <<>>]

\* Store::clear
clear(s) == [s EXCEPT !.index = EmptyIndex, !.data = <<>>]

\* the bytes of data the index refers to (active_size of fragmentation_ratio)
record_size(d) == IF d.err = "Ok" THEN d.n ELSE 0

active_size_of(s, ks) ==
    SumRange([k \in 1..Len(ks) |->
                 record_size(deserialize_value(Slice(s.data, s.index[ks[k]], Len(s.data))))],
             1, Len(ks))

active_size(s) == active_size_of(s, SetToSeq(DOMAIN s.index))

wasted_size(s) == Max(Len(s.data) - active_size(s), 0)

\* fragmentation_ratio() > 0.35, the threshold of save, as a comparison of
\* integers: wasted / total > 35 / 100
FRAG_NUM == 35
FRAG_DEN == 100
fragmentation_over_threshold(s) ==
    /\ Len(s.data) > 0
    /\ wasted_size(s) * FRAG_DEN > FRAG_NUM * Len(s.data)

\* Store::keys
keys(s) == DOMAIN s.index

(***************************************************************************)
(* Snapshots (store.rs:151-306).  The disk holds the three files of the    *)
(* one base path, each None while it does not exist.                       *)
(***************************************************************************)
FILE_VERSION == 1
META_SIZE == 20

NoFiles == [meta |-> None, keys |-> None, data |-> None]

\* one entry of the keys file: (u32 key_len, key bytes, u64 offset)
keys_entry(key, offset) ==
    to_le_bytes(Len(serialize_key(key)), 4) \o serialize_key(key) \o to_le_bytes(offset, 8)

SaveResult(e, s, d) == [err |-> e, store |-> s, disk |-> d]

\* Store::save.  comp_order and keys_order are the iteration orders of the
\* index in compact and in the loop that builds the keys file.
save_meta(s1, keys_buf) ==
    to_le_bytes(FILE_VERSION, 4) \o calculate_crc32(keys_buf) \o calculate_crc32(s1.data)
    \o to_le_bytes(Cardinality(DOMAIN s1.index), 8)

\* the three fs::write calls, in the order of the code
save_files(s1, keys_buf) ==
    [meta |-> Some(save_meta(s1, keys_buf)), keys |-> Some(keys_buf), data |-> Some(s1.data)]

save_keys(s1, keys_order) ==
    ConcatRange([k \in 1..Len(keys_order) |-> keys_entry(keys_order[k], s1.index[keys_order[k]])],
                1, Len(keys_order))

save_compacted(c, s, d, keys_order) ==
    IF c.err # "Ok" THEN SaveResult(c.err, s, d)
    ELSE IF c.store.path = None THEN SaveResult("IoError", c.store, d)
    ELSE SaveResult("Ok", c.store, save_files(c.store, save_keys(c.store, keys_order)))

\* variant of save that builds the keys file from the index as it was before
\* the compaction
save_compacted_stale_keys(c, s, d, keys_order) ==
    IF c.err # "Ok" THEN SaveResult(c.err, s, d)
    ELSE IF c.store.path = None THEN SaveResult("IoError", c.store, d)
    ELSE SaveResult("Ok", c.store, save_files(c.store, save_keys(s, keys_order)))

save_stale_keys(s, d, comp_order, keys_order) ==
    save_compacted_stale_keys(IF fragmentation_over_threshold(s) THEN compact(s, comp_order)
                              ELSE StoreOk(s, NoEntry, 0),
                              s, d, keys_order)

\* variant of save that never compacts
save_never_compacts(s, d, comp_order, keys_order) ==
    save_compacted(StoreOk(s, NoEntry, 0), s, d, keys_order)

save(s, d, comp_order, keys_order) ==
    save_compacted(IF fragmentation_over_threshold(s) THEN compact(s, comp_order)
                   ELSE StoreOk(s, NoEntry, 0),
                   s, d, keys_order)

ParseResult(e, idx) == [err |-> e, index |-> idx]

\* the while loop of load over the keys file, from position pos
RECURSIVE parse_keys(_, _, _)
RECURSIVE parse_entry(_, _, _, _)
parse_keys(keys_buf, pos, idx) ==
    IF pos >= Len(keys_buf) \/ pos + 4 > Len(keys_buf) THEN ParseResult("Ok", idx)
    ELSE parse_entry(keys_buf, pos + 4, u_from_le_bytes(Slice(keys_buf, pos, pos + 4)), idx)

\* one entry: key_len was read, pos is past it
RECURSIVE parse_offset(_, _, _, _)
parse_entry(keys_buf, pos, key_len, idx) ==
    IF key_len = TooBig \/ pos + key_len + 8 > Len(keys_buf) THEN ParseResult("InvalidData", idx)
    ELSE parse_offset(keys_buf, pos + key_len,
                      deserialize_key(Slice(keys_buf, pos, pos + key_len)), idx)

parse_offset(keys_buf, pos, k, idx) ==
    IF k.err # "Ok" THEN ParseResult("InvalidData", idx)
    ELSE parse_keys(keys_buf, pos + 8,
                    (k.key :> u_from_le_bytes(Slice(keys_buf, pos, pos + 8))) @@ idx)

LoadErr(e) == [err |-> e, store |-> NewStore]

load_index(p, entry_count, data_buf, path) ==
    IF p.err # "Ok" THEN LoadErr(p.err)
    ELSE IF Cardinality(DOMAIN p.index) # entry_count THEN LoadErr("FileCorrupted")
    ELSE [err |-> "Ok", store |-> [index |-> p.index, data |-> data_buf, path |-> Some(path)]]

\* variant of the checks of load that does not compare the CRC of the data
load_files_data_unchecked(meta_buf, keys_buf, data_buf, path) ==
    IF calculate_crc32(keys_buf) # Slice(meta_buf, 4, 8) THEN LoadErr("FileCorrupted")
    ELSE load_index(parse_keys(keys_buf, 0, EmptyIndex),
                    u_from_le_bytes(Slice(meta_buf, 12, 20)), data_buf, path)

load_files(meta_buf, keys_buf, data_buf, path) ==
    IF calculate_crc32(keys_buf) # Slice(meta_buf, 4, 8) THEN LoadErr("FileCorrupted")
    ELSE IF calculate_crc32(data_buf) # Slice(meta_buf, 8, 12) THEN LoadErr("FileCorrupted")
    ELSE load_index(parse_keys(keys_buf, 0, EmptyIndex),
                    u_from_le_bytes(Slice(meta_buf, 12, 20)), data_buf, path)

load_meta(d, meta_buf, path) ==
    IF Len(meta_buf) < META_SIZE THEN LoadErr("InvalidData")
    ELSE IF u_from_le_bytes(Slice(meta_buf, 0, 4)) # FILE_VERSION
    THEN LoadErr("UnsupportedVersion")
    ELSE IF d.keys = None \/ d.data = None THEN LoadErr("IoError")
    ELSE load_files(meta_buf, Unwrap(d.keys), Unwrap(d.data), path)

\* Store::load
load(d, path) ==
    IF d.meta = None THEN LoadErr("IoError") ELSE load_meta(d, Unwrap(d.meta), path)

\* Store::files_exist
files_exist(d) == d.keys # None /\ d.data # None /\ d.meta # None

\* Store::with_path
with_path(d, path) ==
    IF files_exist(d) THEN load(d, path)
    ELSE [err |-> "Ok", store |-> [index |-> EmptyIndex, data |-> <<>>, path |-> Some(path)]]

(***************************************************************************)
(* StoreIter (iterator.rs:28-51): the records of the buffer in physical    *)
(* order, garbage included; the first decode error ends the scan.          *)
(***************************************************************************)
RECURSIVE buffer_iter_from(_, _)
RECURSIVE buffer_iter_next(_, _, _)
buffer_iter_from(buf, pos) ==
    IF pos >= Len(buf) THEN <<>>
    ELSE buffer_iter_next(buf, pos, deserialize_value(Slice(buf, pos, Len(buf))))

buffer_iter_next(buf, pos, d) ==
    IF d.err = "Ok" THEN <<d>> \o buffer_iter_from(buf, pos + d.n)
    ELSE <<[d EXCEPT !.err = IF d.err = "ChecksumMismatch" THEN "DataCorruption"
                              ELSE "InvalidData"]>>

buffer_iter(s) == buffer_iter_from(s.data, 0)

(***************************************************************************)
(* Text (format!, str::parse, serde_json) used by the flight segmenter.    *)
(* The text of a struct is the JSON object serde_json writes, with the     *)
(* values in declaration order: integers in decimal, strings quoted,       *)
(* booleans as true/false, a floating-point field as the decimal of its    *)
(* fixed-point count.  The field names, which the derived Serialize and    *)
(* Deserialize write and expect in that same order, are left out of the    *)
(* text.  The strings of the model hold no quote, backslash, comma or      *)
(* control character, so that no escaping takes place.                     *)
(***************************************************************************)
\* a number of at most nine digits, in decimal (Display for integers)
RECURSIVE Digits(_)
Digits(n) == IF n < 10 THEN <<48 + n>> ELSE Digits(n \div 10) \o <<48 + (n % 10)>>

\* format!("{:03}", n)
Digits03(n) == IF n < 10 THEN <<48, 48>> \o Digits(n) ELSE IF n < 100 THEN <<48>> \o Digits(n)
               ELSE Digits(n)

RECURSIVE DigitsValue(_, _)
DigitsValue(b, n) == IF n = 0 THEN 0 ELSE DigitsValue(b, n - 1) * 10 + (b[n] - 48)

IsDigits(b) == Len(b) \in 1..9 /\ \A k \in 1..Len(b) : b[k] \in 48..57

\* str::parse::<usize>: an optional '+', then digits only
parse_usize(b) ==
    IF IsDigits(b) THEN Some(DigitsValue(b, Len(b)))
    ELSE IF Len(b) > 1 /\ b[1] = 43 /\ IsDigits(Tail(b)) THEN Some(DigitsValue(Tail(b), Len(b) - 1))
    ELSE None

starts_with(s, prefix) == Len(s) >= Len(prefix) /\ SubSeq(s, 1, Len(prefix)) = prefix

json_number(n) == IF n < 0 THEN <<45>> \o Digits(0 - n) ELSE Digits(n)
json_string(s) == <<34>> \o s \o <<34>>
json_bool(b) == IF b THEN <<116, 114, 117, 101>> ELSE <<102, 97, 108, 115, 101>>

\* '{' field ',' field ... '}'
json_object(fields) ==
    <<123>> \o ConcatRange([k \in 1..Len(fields) |->
                               IF k = 1 THEN fields[k] ELSE <<44>> \o fields[k]],
                           1, Len(fields)) \o <<125>>

RECURSIVE SortedSeq(_)
SortedSeq(S) ==
    IF S = {} THEN <<>>
    ELSE <<CHOOSE x \in S : \A y \in S : x <= y>>
         \o SortedSeq(S \ {CHOOSE x \in S : \A y \in S : x <= y})

\* the texts between the cuts (the braces and the commas of an object)
fields_between(text, cuts) ==
    [k \in 1..(Len(cuts) - 1) |-> SubSeq(text, cuts[k] + 1, cuts[k + 1] - 1)]

\* the fields of the text of an object, None when it is not one
json_fields(text) ==
    IF Len(text) < 2 \/ text[1] # 123 \/ text[Len(text)] # 125 THEN None
    ELSE Some(fields_between(text,
                SortedSeq({1, Len(text)} \cup {k \in 2..(Len(text) - 1) : text[k] = 44})))

parse_number(f) ==
    IF IsDigits(f) THEN Some(DigitsValue(f, Len(f)))
    ELSE IF Len(f) > 1 /\ f[1] = 45 /\ IsDigits(Tail(f))
    THEN Some(0 - DigitsValue(Tail(f), Len(f) - 1))
    ELSE None

parse_string(f) ==
    IF Len(f) >= 2 /\ f[1] = 34 /\ f[Len(f)] = 34 THEN Some(SubSeq(f, 2, Len(f) - 1)) ELSE None

parse_bool(f) == IF f = <<116, 114, 117, 101>> THEN Some(TRUE) ELSE IF f = <<102, 97, 108, 115, 101>> THEN Some(FALSE) ELSE None

(***************************************************************************)
(* TelemetryPacket and FlightMetadata (telemetry_kv_server/src/types.rs).  *)
(* Of the 28 fields of a packet the model keeps the eight that the         *)
(* segmenter reads.                                                        *)
(***************************************************************************)
PacketFields == <<"latitude", "longitude", "altitude_gps", "ground_speed", "altitude_baro",
                  "vertical_speed", "battery_voltage", "timestamp">>

\* serde_json::to_string(packet)
packet_to_json(p) == json_object([k \in 1..Len(PacketFields) |-> json_number(p[PacketFields[k]])])

packet_of_fields(n) ==
    IF \E k \in 1..Len(n) : n[k] = None THEN None
    ELSE Some([f \in {PacketFields[k] : k \in 1..Len(PacketFields)} |->
                  Unwrap(n[CHOOSE k \in 1..Len(PacketFields) : PacketFields[k] = f])])

packet_of_texts(fs) ==
    IF Len(fs) # Len(PacketFields) THEN None
    ELSE packet_of_fields([k \in 1..Len(fs) |-> parse_number(fs[k])])

packet_of_object(o) == IF o = None THEN None ELSE packet_of_texts(Unwrap(o))

\* serde_json::from_str::<TelemetryPacket>(json).ok()
packet_from_json(text) == packet_of_object(json_fields(text))

\* serde_json::to_string(metadata)
metadata_to_json(m) ==
    json_object(<<json_string(m.flight_id), json_number(m.start_time), json_number(m.end_time),
                  json_number(m.duration_secs), json_number(m.packet_count),
                  json_number(m.distance_km), json_number(m.first_lat), json_number(m.first_lon),
                  json_number(m.last_lat), json_number(m.last_lon), json_number(m.max_altitude),
                  json_number(m.min_battery), json_bool(m.ended_normally),
                  json_string(m.current_status)>>)

metadata_of_fields(id, n, ok, status) ==
    IF id = None \/ ok = None \/ status = None \/ (\E k \in 1..Len(n) : n[k] = None)
       \/ (\E k \in {1, 2, 3, 4} : Unwrap(n[k]) < 0)
    THEN None
    ELSE Some([flight_id |-> Unwrap(id), start_time |-> Unwrap(n[1]), end_time |-> Unwrap(n[2]),
               duration_secs |-> Unwrap(n[3]), packet_count |-> Unwrap(n[4]),
               distance_km |-> Unwrap(n[5]), first_lat |-> Unwrap(n[6]),
               first_lon |-> Unwrap(n[7]), last_lat |-> Unwrap(n[8]), last_lon |-> Unwrap(n[9]),
               max_altitude |-> Unwrap(n[10]), min_battery |-> Unwrap(n[11]),
               ended_normally |-> Unwrap(ok), current_status |-> Unwrap(status)])

metadata_of_texts(fs) ==
    IF Len(fs) # 14 THEN None
    ELSE metadata_of_fields(parse_string(fs[1]), [k \in 1..11 |-> parse_number(fs[k + 1])],
                            parse_bool(fs[13]), parse_string(fs[14]))

metadata_of_object(o) == IF o = None THEN None ELSE metadata_of_texts(Unwrap(o))

\* serde_json::from_str::<FlightMetadata>(json).ok()
metadata_from_json(text) == metadata_of_object(json_fields(text))

PHASE_ON_GROUND == <<79, 110, 32, 71, 114, 111, 117, 110, 100>>
PHASE_TAKING_OFF == <<84, 97, 107, 105, 110, 103, 32, 79, 102, 102>>
PHASE_LANDING == <<76, 97, 110, 100, 105, 110, 103>>
PHASE_ASCENT == <<65, 115, 99, 101, 110, 116>>
PHASE_CRUISE == <<67, 114, 117, 105, 115, 101>>
PHASE_DESCENT == <<68, 101, 115, 99, 101, 110, 116>>
STATUS_LANDED == <<76, 97, 110, 100, 101, 100>>

\* thresholds of get_flight_phase, in tenths of a metre and of a metre per second
GROUND_ALTITUDE == 20
CRUISE_ALTITUDE == 1400
TAKEOFF_SPEED == 30
CLIMB_RATE == 8
DESCENT_RATE == -8
LANDING_ALTITUDE == 200

\* TelemetryPacket::get_flight_phase
\* an f32 that is not a number (from_bytes takes any four bytes): every
\* comparison with it is false.  The numbers of the model lie above it.
NaN == 0 - 1073741823
f32_lt(a, b) == a # NaN /\ b # NaN /\ a < b
f32_gt(a, b) == a # NaN /\ b # NaN /\ a > b
f32_ge(a, b) == a # NaN /\ b # NaN /\ a >= b

\* get_flight_phase with the Landing test moved before the two ground tests
get_flight_phase_landing_first(p) ==
    IF f32_lt(p.altitude_baro, LANDING_ALTITUDE) /\ f32_lt(p.vertical_speed, DESCENT_RATE)
    THEN PHASE_LANDING
    ELSE IF f32_lt(p.altitude_baro, GROUND_ALTITUDE) /\ ~f32_ge(p.ground_speed, TAKEOFF_SPEED)
    THEN PHASE_ON_GROUND
    ELSE IF f32_lt(p.altitude_baro, GROUND_ALTITUDE) /\ f32_ge(p.ground_speed, TAKEOFF_SPEED)
    THEN PHASE_TAKING_OFF
    ELSE IF ~f32_lt(p.altitude_baro, GROUND_ALTITUDE) /\ f32_gt(p.vertical_speed, CLIMB_RATE)
            /\ f32_lt(p.altitude_baro, CRUISE_ALTITUDE)
    THEN PHASE_ASCENT
    ELSE IF f32_ge(p.altitude_baro, CRUISE_ALTITUDE) /\ ~f32_gt(p.vertical_speed, CLIMB_RATE)
            /\ ~f32_lt(p.vertical_speed, DESCENT_RATE)
    THEN PHASE_CRUISE
    ELSE IF f32_lt(p.vertical_speed, DESCENT_RATE) /\ f32_gt(p.altitude_baro, LANDING_ALTITUDE)
    THEN PHASE_DESCENT
    ELSE IF f32_gt(p.vertical_speed, CLIMB_RATE) THEN PHASE_ASCENT
    ELSE IF ~f32_lt(p.altitude_baro, GROUND_ALTITUDE) THEN PHASE_CRUISE
    ELSE PHASE_ON_GROUND

get_flight_phase(p) ==
    IF f32_lt(p.altitude_baro, GROUND_ALTITUDE) /\ ~f32_ge(p.ground_speed, TAKEOFF_SPEED)
    THEN PHASE_ON_GROUND
    ELSE IF f32_lt(p.altitude_baro, GROUND_ALTITUDE) /\ f32_ge(p.ground_speed, TAKEOFF_SPEED)
    THEN PHASE_TAKING_OFF
    ELSE IF f32_lt(p.altitude_baro, LANDING_ALTITUDE) /\ f32_lt(p.vertical_speed, DESCENT_RATE)
    THEN PHASE_LANDING
    ELSE IF ~f32_lt(p.altitude_baro, GROUND_ALTITUDE) /\ f32_gt(p.vertical_speed, CLIMB_RATE)
            /\ f32_lt(p.altitude_baro, CRUISE_ALTITUDE)
    THEN PHASE_ASCENT
    ELSE IF f32_ge(p.altitude_baro, CRUISE_ALTITUDE) /\ ~f32_gt(p.vertical_speed, CLIMB_RATE)
            /\ ~f32_lt(p.vertical_speed, DESCENT_RATE)
    THEN PHASE_CRUISE
    ELSE IF f32_lt(p.vertical_speed, DESCENT_RATE) /\ f32_gt(p.altitude_baro, LANDING_ALTITUDE)
    THEN PHASE_DESCENT
    ELSE IF f32_gt(p.vertical_speed, CLIMB_RATE) THEN PHASE_ASCENT
    ELSE IF ~f32_lt(p.altitude_baro, GROUND_ALTITUDE) THEN PHASE_CRUISE
    ELSE PHASE_ON_GROUND

(***************************************************************************)
(* The flight segmenter (telemetry_kv_server/src/storage.rs).  A           *)
(* TelemetryStorage value is the record t of its fields.                   *)
(***************************************************************************)
\* thresholds, in tenths of a metre, tenths of a metre per second,
\* micro-degrees and milliseconds
ALTITUDE_THRESHOLD == 50
SPEED_THRESHOLD == 20
GPS_STABLE_THRESHOLD == 100
LANDING_CONFIRM_MS == 5000
TIMEOUT_MS == 60000

FLIGHT_KEY_PREFIX == <<102, 108, 105, 103, 104, 116, 58>>
FLIGHT_ID_PREFIX == <<102, 108, 105, 103, 104, 116, 95>>
TELEM_KEY_PREFIX == <<116, 101, 108, 101, 109, 58>>

\* format!("flight:{}", flight_id)
flight_key(flight_id) == KeyString(FLIGHT_KEY_PREFIX \o flight_id)
\* format!("telem:{}:", flight_id)
telem_prefix(flight_id) == TELEM_KEY_PREFIX \o flight_id \o <<58>>
\* format!("telem:{}:{}", flight_id, packet.timestamp)
telem_key(flight_id, timestamp) == KeyString(telem_prefix(flight_id) \o Digits(timestamp))

\* u64::saturating_sub
saturating_sub(a, b) == IF a >= b THEN a - b ELSE 0

\* if let Ok(BorrowedEntry::Text(json)) = store.get(key) { from_str(json) }
metadata_of_get(r) ==
    IF r.err = "Ok" /\ r.entry.tag = TAG_TEXT THEN metadata_from_json(r.entry.s) ELSE None

packet_of_get(r) ==
    IF r.err = "Ok" /\ r.entry.tag = TAG_TEXT THEN packet_from_json(r.entry.s) ELSE None

\* TelemetryStorage::get_flight
get_flight(t, flight_id) == metadata_of_get(get(t.store, flight_key(flight_id)))

\* the number a key gives to get_next_flight_number, 0 when it gives none
flight_number_of_key(key) ==
    IF key.tag = TAG_TEXT /\ starts_with(key.s, FLIGHT_KEY_PREFIX \o FLIGHT_ID_PREFIX)
       /\ parse_usize(SubSeq(key.s, Len(FLIGHT_KEY_PREFIX \o FLIGHT_ID_PREFIX) + 1, Len(key.s)))
            # None
    THEN Unwrap(parse_usize(SubSeq(key.s, Len(FLIGHT_KEY_PREFIX \o FLIGHT_ID_PREFIX) + 1,
                                   Len(key.s))))
    ELSE 0

\* variant of get_next_flight_number that does not look at the store
first_flight_number(t) == 1

\* variant of get_next_flight_number that counts the flights of the store
flight_count_plus_one(t) ==
    1 + Cardinality({key \in keys(t.store) : flight_number_of_key(key) > 0})

\* TelemetryStorage::get_next_flight_number
get_next_flight_number(t) ==
    1 + (CHOOSE m \in {0} \cup {flight_number_of_key(key) : key \in keys(t.store)} :
             \A key \in keys(t.store) : flight_number_of_key(key) <= m)

\* variant of is_gps_stable that takes every position for stable
is_gps_stable_always(t, p) == TRUE

\* TelemetryStorage::is_gps_stable
is_gps_stable(t, p) ==
    IF IsSome(t.last_position)
    THEN /\ Abs(p.latitude - Unwrap(t.last_position)[1]) < GPS_STABLE_THRESHOLD
         /\ Abs(p.longitude - Unwrap(t.last_position)[2]) < GPS_STABLE_THRESHOLD
    ELSE TRUE

\* let is_on_ground = ... of detect_flight_state
is_on_ground(t, p) ==
    /\ p.altitude_gps <= ALTITUDE_THRESHOLD
    /\ p.ground_speed <= SPEED_THRESHOLD
    /\ is_gps_stable(t, p)

stable_duration(t, p) ==
    saturating_sub(p.timestamp,
                   IF IsSome(t.landing_check_start) THEN Unwrap(t.landing_check_start)
                   ELSE p.timestamp)

\* variant of the confirmation that asks for more than LANDING_CONFIRM_MS
landing_confirmed_strict(t, p) == stable_duration(t, p) > LANDING_CONFIRM_MS

\* stable_duration >= LANDING_CONFIRM_MS of detect_flight_state
landing_confirmed(t, p) == stable_duration(t, p) >= LANDING_CONFIRM_MS

\* the match of detect_flight_state; the result is the value t with the
\* state the function returns in new_state
detect_match(t, p, on_ground) ==
    IF t.flight_state = "OnGround"
    THEN [self |-> t, new_state |-> IF ~on_ground THEN "InFlight" ELSE "OnGround"]
    ELSE IF t.flight_state = "InFlight"
    THEN IF on_ground
         THEN [self |-> [t EXCEPT !.landing_check_start = Some(p.timestamp)],
               new_state |-> "Landing"]
         ELSE [self |-> t, new_state |-> "InFlight"]
    ELSE IF ~on_ground
         THEN [self |-> [t EXCEPT !.landing_check_start = None], new_state |-> "InFlight"]
         ELSE [self |-> t,
               new_state |-> IF landing_confirmed(t, p) THEN "OnGround" ELSE "Landing"]

\* TelemetryStorage::detect_flight_state
detect_flight_state(t, p) == detect_match(t, p, is_on_ground(t, p))

\* variant of the distance that keeps the sign of the displacement
signed_displacement(lat1, lon1, lat2, lon2) == (lat2 - lat1) + (lon2 - lon1)

\* TelemetryStorage::haversine_distance.  The great-circle distance is not
\* computed: the model takes a distance that, like it, is never negative,
\* is symmetric and is zero between equal positions.
haversine_distance(lat1, lon1, lat2, lon2) == Abs(lat2 - lat1) + Abs(lon2 - lon1)

\* TelemetryStorage::start_new_flight
new_flight_metadata(flight_id, p) ==
    [flight_id |-> flight_id, start_time |-> p.timestamp, end_time |-> p.timestamp,
     duration_secs |-> 0, packet_count |-> 0, distance_km |-> 0,
     first_lat |-> p.latitude, first_lon |-> p.longitude,
     last_lat |-> p.latitude, last_lon |-> p.longitude,
     max_altitude |-> p.altitude_gps, min_battery |-> p.battery_voltage,
     ended_normally |-> TRUE, current_status |-> get_flight_phase(p)]

start_flight_with_id(t, p, flight_id) ==
    [t EXCEPT !.store = put(t.store, flight_key(flight_id),
                            ValueString(metadata_to_json(new_flight_metadata(flight_id, p)))),
              !.current_flight_id = Some(flight_id),
              !.total_distance_km = 0]

start_new_flight(t, p) ==
    start_flight_with_id(t, p, FLIGHT_ID_PREFIX \o Digits03(get_next_flight_number(t)))

\* The unsigned words of the model are 30 bits wide in place of 64: the
\* timestamps of the model stay far below 2^30, and a difference that falls
\* below 0 wraps to the top of the range as it does in 64 bits.
U64_WRAP == 1073741823 + 1

\* a - b on unsigned words in a build without overflow checks
wrapping_sub(a, b) == (a - b) % U64_WRAP

\* the body of update_flight_metadata once the metadata was read and parsed,
\* in a build without overflow checks
updated_metadata(t, p, metadata, current_phase) ==
    [metadata EXCEPT !.end_time = p.timestamp,
                     !.duration_secs = wrapping_sub(p.timestamp, metadata.start_time) \div 1000,
                     !.packet_count = metadata.packet_count + 1,
                     !.distance_km = t.total_distance_km,
                     !.last_lat = p.latitude,
                     !.last_lon = p.longitude,
                     !.max_altitude = Max(metadata.max_altitude, p.altitude_gps),
                     !.min_battery = Min(metadata.min_battery, p.battery_voltage),
                     !.current_status = current_phase]

update_with_metadata(t, p, key, m) ==
    IF m = None THEN t
    ELSE [t EXCEPT !.store = put(t.store, key,
                                 ValueString(metadata_to_json(
                                     updated_metadata(t, p, Unwrap(m), get_flight_phase(p))))),
                   !.last_phase = Some(get_flight_phase(p))]

\* TelemetryStorage::update_flight_metadata
update_flight_metadata(t, p) ==
    IF IsSome(t.current_flight_id)
    THEN update_with_metadata(t, p, flight_key(Unwrap(t.current_flight_id)),
                              get_flight(t, Unwrap(t.current_flight_id)))
    ELSE t

\* the metadata of a flight put back with some fields replaced
put_metadata(t, key, m) ==
    [t EXCEPT !.store = put(t.store, key, ValueString(metadata_to_json(m)))]

end_normally(t, key, m) ==
    IF m = None THEN t
    ELSE put_metadata(t, key, [Unwrap(m) EXCEPT !.current_status = STATUS_LANDED])

\* variant of the reset that keeps landing_check_start
drop_flight_keeping_timer(t) ==
    [t EXCEPT !.current_flight_id = None, !.total_distance_km = 0, !.last_phase = None]

drop_flight(t) ==
    [t EXCEPT !.current_flight_id = None, !.landing_check_start = None,
              !.total_distance_km = 0, !.last_phase = None]

\* TelemetryStorage::end_current_flight
end_current_flight(t, p, normal) ==
    IF IsSome(t.current_flight_id)
    THEN drop_flight(IF normal
                     THEN end_normally(t, flight_key(Unwrap(t.current_flight_id)),
                                       get_flight(t, Unwrap(t.current_flight_id)))
                     ELSE update_flight_metadata(t, p))
    ELSE t

\* variant of end_catastrophic that also marks the flight as landed
end_catastrophic_landed(t, key, m) ==
    IF m = None THEN t
    ELSE put_metadata(t, key, [Unwrap(m) EXCEPT !.ended_normally = FALSE,
                                                !.distance_km = t.total_distance_km,
                                                !.current_status = STATUS_LANDED])

end_catastrophic(t, key, m) ==
    IF m = None THEN t
    ELSE put_metadata(t, key, [Unwrap(m) EXCEPT !.ended_normally = FALSE,
                                                !.distance_km = t.total_distance_km])

\* TelemetryStorage::end_current_flight_catastrophic
end_current_flight_catastrophic(t) ==
    IF IsSome(t.current_flight_id)
    THEN [drop_flight(end_catastrophic(t, flight_key(Unwrap(t.current_flight_id)),
                                       get_flight(t, Unwrap(t.current_flight_id))))
          EXCEPT !.flight_state = "OnGround"]
    ELSE t

\* variant of the check that leaves a flight in Landing to the confirmation
check_timeout_unless_landing(t, p) ==
    IF IsSome(t.last_packet_time)
       /\ saturating_sub(p.timestamp, Unwrap(t.last_packet_time)) > TIMEOUT_MS
       /\ IsSome(t.current_flight_id)
       /\ t.flight_state # "Landing"
    THEN end_current_flight_catastrophic(t)
    ELSE t

\* variant of the check that also fires on a gap of TIMEOUT_MS itself
check_timeout_at_limit(t, p) ==
    IF IsSome(t.last_packet_time)
       /\ saturating_sub(p.timestamp, Unwrap(t.last_packet_time)) >= TIMEOUT_MS
       /\ IsSome(t.current_flight_id)
    THEN end_current_flight_catastrophic(t)
    ELSE t

\* save_packet, the check for a timeout
check_timeout(t, p) ==
    IF IsSome(t.last_packet_time)
       /\ saturating_sub(p.timestamp, Unwrap(t.last_packet_time)) > TIMEOUT_MS
       /\ IsSome(t.current_flight_id)
    THEN end_current_flight_catastrophic(t)
    ELSE t

\* save_packet, the distance flown since the last packet
add_distance(d, p) ==
    IF IsSome(d.self.current_flight_id) /\ IsSome(d.self.last_position)
    THEN [d EXCEPT !.self.total_distance_km =
                       @ + haversine_distance(Unwrap(d.self.last_position)[1],
                                              Unwrap(d.self.last_position)[2],
                                              p.latitude, p.longitude)]
    ELSE d

\* save_packet, the state transitions and the assignment of the new state
state_transition(d, p) ==
    [(IF d.self.flight_state = "OnGround" /\ d.new_state = "InFlight"
      THEN start_new_flight(d.self, p)
      ELSE IF d.self.flight_state = "Landing" /\ d.new_state = "OnGround"
      THEN end_current_flight(d.self, p, TRUE)
      ELSE d.self)
     EXCEPT !.flight_state = d.new_state]

\* variant of the storing that updates the metadata and puts no record
store_packet_metadata_only(t, p) ==
    IF IsSome(t.current_flight_id) THEN update_flight_metadata(t, p) ELSE t

\* save_packet, the packet stored under the open flight
store_packet(t, p) ==
    IF IsSome(t.current_flight_id)
    THEN update_flight_metadata(
             [t EXCEPT !.store = put(t.store, telem_key(Unwrap(t.current_flight_id), p.timestamp),
                                     ValueString(packet_to_json(p)))],
             p)
    ELSE t

remember_packet(t, p) ==
    [t EXCEPT !.last_position = Some(<<p.latitude, p.longitude>>),
              !.last_packet_time = Some(p.timestamp)]

\* TelemetryStorage::save_packet
save_packet(t, p) ==
    remember_packet(
        store_packet(
            state_transition(add_distance(detect_flight_state(check_timeout(t, p), p), p), p),
            p),
        p)

\* whether save_packet(t, p) takes the transition OnGround -> InFlight
takes_off(d) == d.self.flight_state = "OnGround" /\ d.new_state = "InFlight"

\* the metadata a key gives to list_flights, None when it gives none
flight_of_key(s, key) ==
    IF key.tag = TAG_TEXT /\ starts_with(key.s, FLIGHT_KEY_PREFIX)
    THEN metadata_of_get(get(s, key))
    ELSE None

\* a stable sort of the records of q by the field f (Vec::sort_by_key)
RECURSIVE sort_by_key(_, _)
sort_by_key(q, f) ==
    IF Len(q) <= 1 THEN q
    ELSE LET m == CHOOSE k \in 1..Len(q) :
                      /\ \A j \in 1..Len(q) : q[k][f] <= q[j][f]
                      /\ \A j \in 1..(k - 1) : q[j][f] > q[k][f]
         IN  <<q[m]>> \o sort_by_key(SubSeq(q, 1, m - 1) \o SubSeq(q, m + 1, Len(q)), f)

\* the Some values of q, in order
somes(q) == ConcatRange(q, 1, Len(q))

\* variant of list_flights that leaves the flights in the order of the index
list_flights_unsorted(s, order) ==
    somes([k \in 1..Len(order) |-> flight_of_key(s, order[k])])

\* TelemetryStorage::list_flights, the index iterated in the given order
list_flights(s, order) ==
    sort_by_key(somes([k \in 1..Len(order) |-> flight_of_key(s, order[k])]), "start_time")

\* the packet a key gives to get_flight_data, None when it gives none
packet_of_key(s, key, prefix) ==
    IF key.tag = TAG_TEXT /\ starts_with(key.s, prefix) THEN packet_of_get(get(s, key)) ELSE None

\* TelemetryStorage::get_current_flight_id
get_current_flight_id(t) == t.current_flight_id

\* variant of get_flight_data that leaves the packets in the order of the index
get_flight_data_unsorted(s, flight_id, order) ==
    somes([k \in 1..Len(order) |-> packet_of_key(s, order[k], telem_prefix(flight_id))])

\* TelemetryStorage::get_flight_data, the index iterated in the given order
get_flight_data(s, flight_id, order) ==
    sort_by_key(somes([k \in 1..Len(order) |->
                          packet_of_key(s, order[k], telem_prefix(flight_id))]),
                "timestamp")

\* the keys of order that are in the index of s, in that order
RECURSIVE keys_in(_, _)
keys_in(order, s) ==
    IF order = <<>> THEN <<>>
    ELSE (IF Head(order) \in DOMAIN s.index THEN <<Head(order)>> ELSE <<>>)
             \o keys_in(Tail(order), s)

\* delete_flight, lines 348-358: the keys telem:<id>:* in the order of the index
RECURSIVE keys_to_delete(_, _)
keys_to_delete(order, prefix) ==
    IF order = <<>> THEN <<>>
    ELSE (IF Head(order).tag = TAG_TEXT /\ starts_with(Head(order).s, prefix)
          THEN <<Head(order)>> ELSE <<>>)
             \o keys_to_delete(Tail(order), prefix)

\* delete_flight, lines 360-362: r is the result of the delete before
RECURSIVE delete_keys(_, _)
delete_keys(r, q) ==
    IF r.err # "Ok" \/ q = <<>> THEN r ELSE delete_keys(delete(r.store, Head(q)), Tail(q))

\* delete_flight, line 364: r is the result of the deletes
delete_flight_compact(t, r, order) ==
    IF r.err # "Ok" THEN [err |-> r.err, self |-> [t EXCEPT !.store = r.store]]
    ELSE [err |-> compact(r.store, keys_in(order, r.store)).err,
          self |-> [t EXCEPT !.store = compact(r.store, keys_in(order, r.store)).store]]

\* variant of delete_flight that deletes the metadata key and compacts
delete_flight_metadata_only(t, flight_id, order) ==
    delete_flight_compact(t, delete(t.store, flight_key(flight_id)), order)

\* TelemetryStorage::delete_flight, the index iterated in the given order by
\* keys() and, the deleted keys gone from it, by compact
delete_flight(t, flight_id, order) ==
    delete_flight_compact(
        t,
        delete_keys(delete(t.store, flight_key(flight_id)),
                    keys_to_delete(order, telem_prefix(flight_id))),
        order)

(***************************************************************************)
(* The store run on its own: a Store opened with with_path on a base path  *)
(* that has no files yet, then any sequence of operations.                 *)
(***************************************************************************)
BASE_PATH == "telemetry_data"

\* "k1", Key::Int(2);  Value::Int(1), Value::Int(-100), Value::String("v2")
StoreKeys == {KeyString(<<107, 49>>), KeyInt(2)}
StoreValues == {ValueInt(1), ValueInt(-100), ValueString(<<118, 50>>)}
SnapValues == {ValueInt(-100), ValueString(<<118, 50>>)}

\* most records the buffer holds (garbage included) when a put is made
MaxRecords == 3
\* most puts of a run of the snapshot specification
MaxSnapPuts == 3

NotLoaded == [done |-> FALSE, err |-> "Ok", store |-> NewStore, of |-> None]
Ret(op, key, err, n) == [op |-> op, key |-> key, err |-> err, n |-> n]
NoKey == KeyInt(0)

\* what a caller sees of a get: the error or the value
Outcome(r) == [err |-> r.err, entry |-> r.entry]

\* the live mapping {K -> get(K)} of a store, over the keys of the model
GetMap(s) == [k \in StoreKeys |-> Outcome(get(s, k))]

SegInit ==
    /\ current_flight_id = None
    /\ flight_state = "OnGround"
    /\ landing_check_start = None
    /\ last_position = None
    /\ last_packet_time = None
    /\ total_distance_km = 0
    /\ last_phase = None
    /\ packet = None

\* puts, packets, restarts: the operations run so far; takeoffs, returns: the
\* transitions OnGround -> InFlight and Landing -> InFlight taken so far;
\* confirmed: the stable duration that confirmed the last landing
\* open: a Store value exists; attempt: the last save() when it stopped before
\* its last write; checks: whether the build has overflow checks, once a step
\* showed it; aborted: a panic ended the task that made the call
HistInit ==
    [puts |-> 0, packets |-> 0, restarts |-> 0, takeoffs |-> 0, returns |-> 0, confirmed |-> 0,
     open |-> TRUE, attempt |-> None, checks |-> None, aborted |-> FALSE]

\* Subscribers of the run; each is one connection to /ws/stream
Subscribers == {1, 2}

\* a task handle_socket before the connection is made
NewSubscriber ==
    [pc |-> "idle", flight |-> None, pending |-> <<>>, rx |-> None, from |-> None,
     out |-> None, delivered |-> <<>>]

\* the task run_binary_client, as a holder of the lock
IngestTask == 0

\* the tasks that serve DELETE /api/flights/:id
Requests == {3, 4}

\* a handler task before a request is routed to it
NewRequest == [pc |-> "idle", flight_id |-> <<>>]

\* main: the Mutex is free, the channel is empty, the ingest task awaits a frame
SrvInit ==
    /\ lock = None
    /\ ingest = [pc |-> "recv", packet |-> None, saved |-> <<>>]
    /\ bus = <<>>
    /\ subs = [s \in Subscribers |-> NewSubscriber]
    /\ api = [r \in Requests |-> NewRequest]

\* TelemetryStorage::new on a base path without files
StorageInit ==
    /\ store = with_path(NoFiles, BASE_PATH).store
    /\ disk = NoFiles
    /\ loaded = NotLoaded
    /\ ret = Ret("new", NoKey, "Ok", 0)
    /\ live = [k \in {} |-> ValueInt(0)]
    /\ saved = None
    /\ hist = HistInit
    /\ SegInit

StoreInit == StorageInit /\ SrvInit

Put(key, value) ==
    /\ store' = put(store, key, value)
    /\ ret' = Ret("put", key, "Ok", 0)
    /\ live' = (key :> value) @@ live
    /\ loaded' = NotLoaded
    /\ UNCHANGED <<disk, saved>>

DeleteStep(key, r) ==
    /\ store' = r.store
    /\ ret' = Ret("delete", key, r.err, 0)
    /\ live' = IF r.err = "Ok" THEN [k \in (DOMAIN live) \ {key} |-> live[k]] ELSE live

Delete(key) ==
    /\ DeleteStep(key, delete(store, key))
    /\ loaded' = NotLoaded
    /\ UNCHANGED <<disk, saved>>

CompactStep(r) ==
    /\ store' = r.store
    /\ ret' = Ret("compact", NoKey, r.err, r.n)

Compact ==
    \E order \in IterOrders(DOMAIN store.index) :
        /\ CompactStep(compact(store, order))
        /\ loaded' = NotLoaded
        /\ UNCHANGED <<disk, live, saved>>

Clear ==
    /\ store' = clear(store)
    /\ ret' = Ret("clear", NoKey, "Ok", 0)
    /\ live' = [k \in {} |-> ValueInt(0)]
    /\ loaded' = NotLoaded
    /\ UNCHANGED <<disk, saved>>

SaveStep(r) ==
    /\ store' = r.store
    /\ disk' = r.disk
    /\ ret' = Ret("save", NoKey, r.err, 0)
    /\ saved' = IF r.err = "Ok"
                THEN Some([map |-> GetMap(r.store),
                           compacted |-> fragmentation_over_threshold(store)])
                ELSE saved

\* save(), every write succeeding
Save ==
    \E comp_order \in IterOrders(DOMAIN store.index) :
      \E keys_order \in IterOrders(DOMAIN store.index) :
        /\ SaveStep(save(store, disk, comp_order, keys_order))
        /\ loaded' = NotLoaded
        /\ UNCHANGED live

\* Store::load(path) into a second Store value
LoadStep(r) ==
    /\ loaded' = [done |-> TRUE, err |-> r.err, store |-> r.store, of |-> saved]
    /\ ret' = Ret("load", NoKey, r.err, 0)

Load ==
    /\ LoadStep(load(disk, BASE_PATH))
    /\ UNCHANGED <<store, disk, live, saved>>

StoreNext ==
    \/ \E key \in StoreKeys, value \in StoreValues :
           Len(buffer_iter(store)) < MaxRecords /\ Put(key, value) /\ UNCHANGED <<segVars, srvVars>>
    \/ \E key \in StoreKeys : Delete(key) /\ UNCHANGED <<segVars, srvVars>>
    \/ Compact /\ UNCHANGED <<segVars, srvVars>>
    \/ Clear /\ UNCHANGED <<segVars, srvVars>>

SpecStore == StoreInit /\ [][StoreNext]_vars

SnapNext ==
    \/ \E key \in StoreKeys, value \in SnapValues :
           /\ hist.puts < MaxSnapPuts
           /\ Put(key, value)
           /\ hist' = [hist EXCEPT !.puts = @ + 1]
           /\ UNCHANGED <<segVarsNoHist, srvVars>>
    \/ \E key \in StoreKeys : Delete(key) /\ UNCHANGED <<segVars, srvVars>>
    \/ Compact /\ UNCHANGED <<segVars, srvVars>>
    \/ Save /\ UNCHANGED <<segVars, srvVars>>
    \/ Load /\ UNCHANGED <<segVars, srvVars>>

SpecSnap == StoreInit /\ [][SnapNext]_vars

(***************************************************************************)
(* The segmenter run on its own: a TelemetryStorage made by new() on a     *)
(* base path that has no files yet, fed packets by save_packet.            *)
(***************************************************************************)
\* the TelemetryStorage value held by the variables
Self ==
    [store |-> store, current_flight_id |-> current_flight_id, flight_state |-> flight_state,
     landing_check_start |-> landing_check_start, last_position |-> last_position,
     last_packet_time |-> last_packet_time, total_distance_km |-> total_distance_km,
     last_phase |-> last_phase]

\* Packets.  A shape gives the altitude and speed (tenths), the vertical
\* speed, the position (0: latitude 0, 1: GPS_STABLE_THRESHOLD north of it,
\* both at longitude 0) and the time since the previous packet; the first
\* packet of a run comes that long after time 1000.
Shape(alt, speed, vs, pos, dt) == [alt |-> alt, speed |-> speed, vs |-> vs, pos |-> pos, dt |-> dt]

Shapes ==
    { Shape(50, 20, 0, 0, 1000),     \* on the ground, at both thresholds
      Shape(0, 0, 0, 0, 5000),       \* on the ground, LANDING_CONFIRM_MS later
      Shape(0, 0, 0, 0, 61000),      \* on the ground, after a silence over TIMEOUT_MS
      Shape(0, 0, 0, 1, 0),          \* low and slow at the other position, same timestamp
      Shape(51, 0, 10, 0, 1000),     \* just above the altitude threshold, climbing
      Shape(0, 21, 0, 1, 61000) }    \* just above the speed threshold, after a silence

\* the packets of the specification with restarts
RestartShapes ==
    { Shape(50, 20, 0, 0, 1000), Shape(0, 0, 0, 0, 5000), Shape(51, 0, 10, 0, 1000) }

make_packet(sh, last_time) ==
    [latitude |-> sh.pos * GPS_STABLE_THRESHOLD, longitude |-> 0,
     altitude_gps |-> sh.alt, ground_speed |-> sh.speed, altitude_baro |-> sh.alt,
     vertical_speed |-> sh.vs, battery_voltage |-> 120 - sh.speed \div 10,
     timestamp |-> (IF IsSome(last_time) THEN Unwrap(last_time) ELSE 1000) + sh.dt]

\* most packets of a run
MaxPackets == 5
\* most packets and most restarts of a run with restarts
MaxRestartPackets == 3
MaxRestarts == 1

\* d is what detect_flight_state returned in the call
SavePacketStep(t, p, d) ==
    /\ store' = t.store
    /\ current_flight_id' = t.current_flight_id
    /\ flight_state' = t.flight_state
    /\ landing_check_start' = t.landing_check_start
    /\ last_position' = t.last_position
    /\ last_packet_time' = t.last_packet_time
    /\ total_distance_km' = t.total_distance_km
    /\ last_phase' = t.last_phase
    /\ packet' = Some(p)
    /\ hist' = [hist EXCEPT
                   !.packets = @ + 1,
                   !.takeoffs = @ + (IF takes_off(d) THEN 1 ELSE 0),
                   !.returns = @ + (IF d.self.flight_state = "Landing" /\ d.new_state = "InFlight"
                                    THEN 1 ELSE 0),
                   !.confirmed = IF d.self.flight_state = "Landing" /\ d.new_state = "OnGround"
                                 THEN stable_duration(d.self, p) ELSE @]

\* storage.save_packet(&packet)
SavePacket(p) ==
    /\ SavePacketStep(save_packet(Self, p), p, detect_flight_state(check_timeout(Self, p), p))
    /\ UNCHANGED <<disk, loaded, ret, live, saved, srvVars>>

SegNext ==
    \E sh \in Shapes : hist.packets < MaxPackets /\ SavePacket(make_packet(sh, last_packet_time))

SpecSeg == StoreInit /\ [][SegNext]_vars

\* The process ends and starts again: the Store is dropped (Drop saves it,
\* the result ignored) and TelemetryStorage::new opens the same base path.
RestartStep(r, w) ==
    /\ w.err = "Ok"
    /\ disk' = r.disk
    /\ store' = w.store
    /\ current_flight_id' = None
    /\ flight_state' = "OnGround"
    /\ landing_check_start' = None
    /\ last_position' = None
    /\ last_packet_time' = None
    /\ total_distance_km' = 0
    /\ last_phase' = None
    /\ packet' = None
    /\ hist' = [hist EXCEPT !.restarts = @ + 1]

RestartSaved(r) == RestartStep(r, with_path(r.disk, BASE_PATH))

Restart ==
    \E comp_order \in IterOrders(DOMAIN store.index) :
      \E keys_order \in IterOrders(DOMAIN store.index) :
        /\ RestartSaved(save(store, disk, comp_order, keys_order))
        /\ UNCHANGED <<loaded, ret, live, saved, srvVars>>

SegRestartNext ==
    \/ \E sh \in RestartShapes :
           /\ hist.packets < MaxRestartPackets
           /\ SavePacket(make_packet(sh, last_packet_time))
    \/ hist.restarts < MaxRestarts /\ Restart

SpecSegRestart == StoreInit /\ [][SegRestartNext]_vars

(***************************************************************************)
(* The segmenter fed packets around the timeout: gaps of TIMEOUT_MS, of    *)
(* one millisecond more, and timestamps that go back.                      *)
(***************************************************************************)
TimeoutShapes ==
    { Shape(51, 0, 10, 0, 1000),      \* airborne
      Shape(0, 0, 0, 0, 1000),        \* on the ground
      Shape(51, 0, 10, 0, 60000),     \* airborne, after a silence of TIMEOUT_MS
      Shape(0, 0, 0, 0, 60000),       \* on the ground, after a silence of TIMEOUT_MS
      Shape(51, 0, 10, 0, 60001),     \* airborne, one millisecond later than that
      Shape(0, 0, 0, 0, 60001),       \* on the ground, one millisecond later than that
      Shape(51, 0, 10, 0, -500),      \* airborne, with an earlier timestamp
      Shape(0, 0, 0, 0, -500) }       \* on the ground, with an earlier timestamp

MaxTimeoutPackets == 4

\* The timestamp is a u64, and the packets of this run do not go back beyond
\* the start of the open flight: packet.timestamp - metadata.start_time
\* (storage.rs:205) does not overflow.
NotBeforeStart(t, p) ==
    /\ p.timestamp >= 0
    /\ IsSome(t.current_flight_id) =>
           \A m \in {get_flight(t, Unwrap(t.current_flight_id))} :
               IsSome(m) => p.timestamp >= Unwrap(m).start_time

TimeoutNext ==
    \E sh \in TimeoutShapes :
        /\ hist.packets < MaxTimeoutPackets
        /\ NotBeforeStart(Self, make_packet(sh, last_packet_time))
        /\ SavePacket(make_packet(sh, last_packet_time))

SpecTimeout == StoreInit /\ [][TimeoutNext]_vars

(***************************************************************************)
(* The server: the ingest task run_binary_client and the subscriber tasks  *)
(* handle_socket share the TelemetryStorage behind one Mutex and the       *)
(* broadcast channel.  A step is what a task does between two awaits.      *)
(*                                                                         *)
(* The channel keeps the last ChannelCapacity packets for the receivers    *)
(* that have not taken them yet; bus is everything sent so far, and a      *)
(* receiver is the number of packets of bus it is past.  A receiver that   *)
(* is more than ChannelCapacity packets behind gets RecvError::Lagged from *)
(* its next recv.                                                          *)
(***************************************************************************)
\* broadcast::channel(1000) (main.rs:34), with a capacity scaled to the run
ChannelCapacity == 2

\* most frames the upstream delivers in a run
MaxFrames == 3

\* the frames of the upstream decode to these packets, 1000 ms apart
ServeShapes ==
    { Shape(51, 0, 10, 0, 1000),      \* airborne
      Shape(0, 0, 0, 0, 1000) }       \* on the ground

\* run_binary_client, lines 25-31: the frame decodes to packet p; the task
\* takes the lock, runs save_packet and drops the guard
IngestSave(p) ==
    /\ ingest.pc = "recv"
    /\ lock = None
    /\ SavePacketStep(save_packet(Self, p), p, detect_flight_state(check_timeout(Self, p), p))
    /\ ingest' = [pc |-> "send", packet |-> Some(p),
                  saved |-> Append(ingest.saved,
                                   [packet |-> p, flight |-> current_flight_id'])]
    /\ UNCHANGED <<disk, loaded, ret, live, saved, lock, bus, subs, api>>

\* run_binary_client, line 33: broadcast_tx.send(packet), the result ignored
IngestSend ==
    /\ ingest.pc = "send"
    /\ bus' = Append(bus, Unwrap(ingest.packet))
    /\ ingest' = [ingest EXCEPT !.pc = "recv", !.packet = None]
    /\ UNCHANGED <<storeVars, segVars, lock, subs, api>>

\* the packets handle_socket takes from the storage under the lock
backfill_packets(t, order) ==
    IF IsSome(get_current_flight_id(t))
    THEN get_flight_data(t.store, Unwrap(get_current_flight_id(t)), order)
    ELSE <<>>

\* handle_socket, lines 31-34: the lock is taken, the packets of the current
\* flight are read
Attach(s) ==
    /\ subs[s].pc = "idle"
    /\ lock = None
    /\ lock' = Some(s)
    /\ \E order \in IterOrders(DOMAIN store.index) :
           subs' = [subs EXCEPT ![s].pc = "backfill",
                                ![s].flight = get_current_flight_id(Self),
                                ![s].pending = backfill_packets(Self, order)]
    /\ UNCHANGED <<storeVars, segVars, ingest, bus, api>>

\* handle_socket, lines 36-42: one packet of the backfill is sent on the socket
BackfillSend(s) ==
    /\ subs[s].pc = "backfill"
    /\ subs[s].pending # <<>>
    /\ subs' = [subs EXCEPT ![s].pending = Tail(@),
                            ![s].delivered =
                                Append(@, [live |-> FALSE,
                                           json |-> packet_to_json(Head(subs[s].pending))])]
    /\ UNCHANGED <<storeVars, segVars, lock, ingest, bus, api>>

\* handle_socket, line 44: the block ends and the guard is dropped
BackfillEnd(s) ==
    /\ subs[s].pc = "backfill"
    /\ subs[s].pending = <<>>
    /\ lock' = None
    /\ subs' = [subs EXCEPT ![s].pc = "subscribe"]
    /\ UNCHANGED <<storeVars, segVars, ingest, bus, api>>

\* handle_socket, line 47: broadcast_tx.subscribe()
Subscribe(s) ==
    /\ subs[s].pc = "subscribe"
    /\ subs' = [subs EXCEPT ![s].pc = "live",
                            ![s].rx = Some(Len(bus)),
                            ![s].from = Some(Len(bus))]
    /\ UNCHANGED <<storeVars, segVars, lock, ingest, bus, api>>

\* the receiver is more than the capacity behind
lagged(rx) == Len(bus) - Unwrap(rx) > ChannelCapacity

\* handle_socket, line 48: rx.recv().await returns.  Err(Lagged) ends the
\* loop and the task; Ok(packet) goes on to the send.
Recv(s) ==
    /\ subs[s].pc = "live"
    /\ IF lagged(subs[s].rx)
       THEN subs' = [subs EXCEPT ![s].pc = "done",
                                 ![s].rx = Some(Len(bus) - ChannelCapacity)]
       ELSE /\ Unwrap(subs[s].rx) < Len(bus)
            /\ subs' = [subs EXCEPT ![s].pc = "send",
                                    ![s].rx = Some(Unwrap(@) + 1),
                                    ![s].out =
                                        Some(packet_to_json(bus[Unwrap(subs[s].rx) + 1]))]
    /\ UNCHANGED <<storeVars, segVars, lock, ingest, bus, api>>

\* handle_socket, lines 49-50: the packet is sent on the socket
LiveSend(s) ==
    /\ subs[s].pc = "send"
    /\ subs' = [subs EXCEPT ![s].pc = "live",
                            ![s].out = None,
                            ![s].delivered =
                                Append(@, [live |-> TRUE, json |-> Unwrap(subs[s].out)])]
    /\ UNCHANGED <<storeVars, segVars, lock, ingest, bus, api>>

\* handle_socket, lines 38-41 and 50-53: socket.send fails, the task ends (and
\* drops the guard if it holds it)
SendFails(s) ==
    /\ \/ subs[s].pc = "backfill" /\ subs[s].pending # <<>>
       \/ subs[s].pc = "send"
    /\ lock' = IF lock = Some(s) THEN None ELSE lock
    /\ subs' = [subs EXCEPT ![s].pc = "done", ![s].pending = <<>>, ![s].out = None]
    /\ UNCHANGED <<storeVars, segVars, ingest, bus, api>>

ServeNext ==
    \/ \E sh \in ServeShapes :
           hist.packets < MaxFrames /\ IngestSave(make_packet(sh, last_packet_time))
    \/ IngestSend
    \/ \E s \in Subscribers : Attach(s)
    \/ \E s \in Subscribers : BackfillSend(s)
    \/ \E s \in Subscribers : BackfillEnd(s)
    \/ \E s \in Subscribers : Subscribe(s)
    \/ \E s \in Subscribers : Recv(s)
    \/ \E s \in Subscribers : LiveSend(s)
    \/ \E s \in Subscribers : SendFails(s)

SpecServe == StoreInit /\ [][ServeNext]_vars

(***************************************************************************)
(* The segmenter with the queries and delete_flight of the API.            *)
(***************************************************************************)
FlightShapes ==
    { Shape(51, 0, 10, 0, 1000),      \* airborne
      Shape(51, 0, 10, 0, 61000),     \* airborne, after a silence over TIMEOUT_MS
      Shape(0, 0, 0, 0, 1000),        \* on the ground
      Shape(0, 0, 0, 0, 5000) }       \* on the ground, LANDING_CONFIRM_MS later

\* flight_001, flight_002 and "flight_00", a prefix of both
FlightIds ==
    { FLIGHT_ID_PREFIX \o <<48, 48, 49>>, FLIGHT_ID_PREFIX \o <<48, 48, 50>>,
      FLIGHT_ID_PREFIX \o <<48, 48>> }

MaxFlightPackets == 4

DeleteFlightStep(r, flight_id) ==
    /\ store' = r.self.store
    /\ ret' = Ret("delete_flight", flight_key(flight_id), r.err, 0)

\* api::delete_flight: storage.delete_flight(&flight_id) under the lock
DeleteFlight(flight_id) ==
    \E order \in IterOrders(DOMAIN store.index) :
        /\ DeleteFlightStep(delete_flight(Self, flight_id, order), flight_id)
        /\ UNCHANGED <<disk, loaded, live, saved, segVars, srvVars>>

FlightsNext ==
    \/ \E sh \in FlightShapes :
           /\ hist.packets < MaxFlightPackets
           /\ SavePacket(make_packet(sh, last_packet_time))
    \/ \E flight_id \in FlightIds : DeleteFlight(flight_id)

SpecFlights == StoreInit /\ [][FlightsNext]_vars

(***************************************************************************)
(* Store::load run on snapshot files that were changed after a save.  Each *)
(* change is made to the files as save() left them: a byte of a file is    *)
(* altered, or the keys file is cut or extended and its CRC32 in meta is   *)
(* set to match, or a field of meta is rewritten.                          *)
(***************************************************************************)
\* most puts of a run
MaxLoadPuts == 2
\* most bytes cut from the end of the keys file
MaxCut == 20
\* most bytes added to the end of the keys file
MaxPad == 3
\* versions written into meta in place of FILE_VERSION
OtherVersions == {0, 2}

\* meta with the CRC32 of the keys file set to that of keys_buf
reseal(meta_buf, keys_buf) ==
    Slice(meta_buf, 0, 4) \o calculate_crc32(keys_buf) \o Slice(meta_buf, 8, Len(meta_buf))

\* the byte at position k (from 1) replaced by another one
flip(bytes, k) == [bytes EXCEPT ![k] = (@ + 1) % 256]

\* the positions of a file at which a byte is altered: its first and its last
FlipPositions(file) == IF file = None THEN {} ELSE {1, Len(Unwrap(file))} \ {0}

\* the files are as a successful save() left them
Pristine == ret.op = "save" /\ ret.err = "Ok"

Tamper(d) ==
    /\ disk' = d
    /\ ret' = Ret("tamper", NoKey, "Ok", 0)
    /\ loaded' = NotLoaded
    /\ UNCHANGED <<store, live, saved>>

SetVersion(v) ==
    Tamper([disk EXCEPT !.meta = Some(to_le_bytes(v, 4) \o Slice(Unwrap(disk.meta), 4, META_SIZE))])

SetEntryCount ==
    Tamper([disk EXCEPT !.meta =
        Some(Slice(Unwrap(disk.meta), 0, 12)
             \o to_le_bytes(u_from_le_bytes(Slice(Unwrap(disk.meta), 12, 20)) + 1, 8))])

FlipKeysByte(k) ==
    Tamper([disk EXCEPT !.keys = Some(flip(Unwrap(disk.keys), k))])

FlipDataByte(k) ==
    Tamper([disk EXCEPT !.data = Some(flip(Unwrap(disk.data), k))])

SetKeys(keys_buf) ==
    Tamper([disk EXCEPT !.keys = Some(keys_buf),
                        !.meta = Some(reseal(Unwrap(disk.meta), keys_buf))])

CutKeys(n) ==
    /\ n <= Len(Unwrap(disk.keys))
    /\ SetKeys(Slice(Unwrap(disk.keys), 0, Len(Unwrap(disk.keys)) - n))

PadKeys(n) == SetKeys(Unwrap(disk.keys) \o [k \in 1..n |-> 0])

LoadNext ==
    \/ \E key \in StoreKeys, value \in SnapValues :
           /\ hist.puts < MaxLoadPuts
           /\ Put(key, value)
           /\ hist' = [hist EXCEPT !.puts = @ + 1]
           /\ UNCHANGED <<segVarsNoHist, srvVars>>
    \/ Save /\ UNCHANGED <<segVars, srvVars>>
    \/ Load /\ UNCHANGED <<segVars, srvVars>>
    \/ \E v \in OtherVersions : Pristine /\ SetVersion(v) /\ UNCHANGED <<segVars, srvVars>>
    \/ Pristine /\ SetEntryCount /\ UNCHANGED <<segVars, srvVars>>
    \/ \E k \in FlipPositions(disk.keys) :
           Pristine /\ FlipKeysByte(k) /\ UNCHANGED <<segVars, srvVars>>
    \/ \E k \in FlipPositions(disk.data) :
           Pristine /\ FlipDataByte(k) /\ UNCHANGED <<segVars, srvVars>>
    \/ \E n \in 1..MaxCut : Pristine /\ CutKeys(n) /\ UNCHANGED <<segVars, srvVars>>
    \/ \E n \in 1..MaxPad : Pristine /\ PadKeys(n) /\ UNCHANGED <<segVars, srvVars>>

SpecLoad == StoreInit /\ [][LoadNext]_vars

(***************************************************************************)
(* The life of a Store over its files: save() may stop after any of its    *)
(* three writes (an I/O error, or the process ending), the Store is        *)
(* dropped and opened again with with_path or made anew with Store::new,   *)
(* and a file may be lost while no Store is open.                          *)
(***************************************************************************)
\* the fs::write calls of save()
WritesPerSave == 3
\* most puts of a run
MaxFilePuts == 2
\* most drops of a run
MaxDrops == 2

FileNames == {"meta", "keys", "data"}

\* the files after the first n writes of a save that was to leave new
written(d, new, n) ==
    [meta |-> IF n >= 1 THEN new.meta ELSE d.meta,
     keys |-> IF n >= 2 THEN new.keys ELSE d.keys,
     data |-> IF n >= 3 THEN new.data ELSE d.data]

\* variant of drop that does not save
drop_without_save(s, d, comp_order, keys_order) == SaveResult("Ok", s, d)

\* Drop for Store: one save() when the Store has a path, its result ignored
drop(s, d, comp_order, keys_order) ==
    IF s.path # None THEN SaveResult("Ok", s, save(s, d, comp_order, keys_order).disk)
    ELSE SaveResult("Ok", s, d)

\* key -> value as get returns them
contents(s) ==
    [k \in {key \in DOMAIN s.index : get(s, key).err = "Ok"} |-> get(s, k).entry]

\* the history after a save that made n of its writes
AttemptStep(r, n) ==
    /\ saved' = IF r.err = "Ok" /\ n = WritesPerSave
                THEN Some([map |-> GetMap(r.store),
                           compacted |-> fragmentation_over_threshold(store)])
                ELSE saved
    /\ hist' = [hist EXCEPT
                  !.attempt = IF r.err # "Ok" THEN @
                              ELSE IF n = WritesPerSave THEN None
                              ELSE Some([n |-> n, map |-> GetMap(r.store)]),
                  !.open = ret'.op = "save",
                  !.restarts = IF ret'.op = "save" THEN @ ELSE @ + 1]

FileSaveStep(r, n) ==
    /\ store' = r.store
    /\ disk' = IF r.err = "Ok" THEN written(disk, r.disk, n) ELSE disk
    /\ ret' = Ret("save", NoKey,
                  IF r.err = "Ok" /\ n < WritesPerSave THEN "IoError" ELSE r.err, n)
    /\ AttemptStep(r, n)
    /\ UNCHANGED <<live, loaded>>

\* save(), the first n writes succeeding
FileSave(n) ==
    \E comp_order \in IterOrders(DOMAIN store.index) :
      \E keys_order \in IterOrders(DOMAIN store.index) :
        FileSaveStep(save(store, disk, comp_order, keys_order), n)

FileDropStep(r, n) ==
    /\ store' = NewStore
    /\ disk' = written(disk, r.disk, n)
    /\ ret' = Ret("drop", NoKey, "Ok", IF store.path = None THEN 0 ELSE n)
    /\ AttemptStep([err |-> IF store.path = None THEN "NotSaved" ELSE "Ok", store |-> store], n)
    /\ UNCHANGED <<live, loaded>>

\* the Store goes out of scope; the first n writes of its save succeed
FileDrop(n) ==
    \E comp_order \in IterOrders(DOMAIN store.index) :
      \E keys_order \in IterOrders(DOMAIN store.index) :
        FileDropStep(drop(store, disk, comp_order, keys_order), n)

FileOpenStep(r) ==
    /\ store' = r.store
    /\ loaded' = [done |-> TRUE, err |-> r.err, store |-> r.store, of |-> saved]
    /\ ret' = Ret("with_path", NoKey, r.err, 0)
    /\ live' = IF r.err = "Ok" THEN contents(r.store) ELSE live
    /\ hist' = [hist EXCEPT !.open = r.err = "Ok"]
    /\ UNCHANGED <<disk, saved>>

\* Store::with_path(BASE_PATH)
FileOpen == FileOpenStep(with_path(disk, BASE_PATH))

\* Store::new()
FileNew ==
    /\ store' = NewStore
    /\ live' = [k \in {} |-> ValueInt(0)]
    /\ loaded' = NotLoaded
    /\ ret' = Ret("new", NoKey, "Ok", 0)
    /\ hist' = [hist EXCEPT !.open = TRUE]
    /\ UNCHANGED <<disk, saved>>

\* one of the three files is lost
RemoveFile(f) ==
    /\ disk' = [disk EXCEPT ![f] = None]
    /\ ret' = Ret("remove", NoKey, "Ok", 0)
    /\ UNCHANGED <<store, live, loaded, saved, hist>>

FilesNext ==
    \/ \E key \in StoreKeys, value \in SnapValues :
           /\ hist.open /\ hist.puts < MaxFilePuts
           /\ Put(key, value)
           /\ hist' = [hist EXCEPT !.puts = @ + 1]
           /\ UNCHANGED <<segVarsNoHist, srvVars>>
    \/ \E n \in 0..WritesPerSave :
           hist.open /\ FileSave(n) /\ UNCHANGED <<segVarsNoHist, srvVars>>
    \/ \E n \in 0..WritesPerSave :
           /\ hist.open /\ hist.restarts < MaxDrops
           /\ FileDrop(n)
           /\ UNCHANGED <<segVarsNoHist, srvVars>>
    \/ ~hist.open /\ FileOpen /\ UNCHANGED <<segVarsNoHist, srvVars>>
    \/ ~hist.open /\ FileNew /\ UNCHANGED <<segVarsNoHist, srvVars>>
    \/ \E f \in FileNames :
           /\ ~hist.open /\ ret.op = "drop" /\ files_exist(disk)
           /\ RemoveFile(f)
           /\ UNCHANGED <<segVarsNoHist, srvVars>>

SpecFiles == StoreInit /\ [][FilesNext]_vars

(***************************************************************************)
(* The HTTP handlers and the ingest task around the storage lock.  A call  *)
(* of save_packet or delete_flight is taken in two steps, with the storage *)
(* between them as the call leaves it half-way: the telemetry record put   *)
(* and the metadata not yet updated, the metadata key deleted and the      *)
(* telemetry keys not yet.  The reads are one step each.                   *)
(***************************************************************************)
\* most frames the upstream delivers in a run
MaxApiFrames == 2

\* variant of the lock that is given to every task that asks
can_lock_always(l) == TRUE

\* state.storage.lock().await returns when no task holds the guard
can_lock(l) == l = None

\* save_packet, line 85: the telemetry record put under the open flight
put_packet(t, p) ==
    IF IsSome(t.current_flight_id)
    THEN [t EXCEPT !.store = put(t.store, telem_key(Unwrap(t.current_flight_id), p.timestamp),
                                 ValueString(packet_to_json(p)))]
    ELSE t

\* save_packet up to the put of the telemetry record (lines 45-85)
save_packet_begin(t, p) ==
    put_packet(state_transition(add_distance(detect_flight_state(check_timeout(t, p), p), p), p), p)

\* save_packet from update_flight_metadata on (lines 87-92)
save_packet_end(t, p) == remember_packet(update_flight_metadata(t, p), p)

\* the fields of the TelemetryStorage become those of t
SetSelf(t) ==
    /\ store' = t.store
    /\ current_flight_id' = t.current_flight_id
    /\ flight_state' = t.flight_state
    /\ landing_check_start' = t.landing_check_start
    /\ last_position' = t.last_position
    /\ last_packet_time' = t.last_packet_time
    /\ total_distance_km' = t.total_distance_km
    /\ last_phase' = t.last_phase

\* run_binary_client, line 28: the guard is taken and save_packet runs up to
\* the put of the telemetry record
ApiIngestBegin(p) ==
    /\ ingest.pc = "recv"
    /\ can_lock(lock)
    /\ lock' = Some(IngestTask)
    /\ SavePacketStep(save_packet_begin(Self, p), p, detect_flight_state(check_timeout(Self, p), p))
    /\ ingest' = [ingest EXCEPT !.pc = "saving", !.packet = Some(p)]
    /\ UNCHANGED <<disk, loaded, ret, live, saved, bus, subs, api>>

\* save_packet runs to its end and the guard is dropped
ApiIngestEnd ==
    /\ ingest.pc = "saving"
    /\ SetSelf(save_packet_end(Self, Unwrap(ingest.packet)))
    /\ lock' = None
    /\ ingest' = [ingest EXCEPT !.pc = "send",
                                !.saved = Append(@, [packet |-> Unwrap(ingest.packet),
                                                     flight |-> current_flight_id'])]
    /\ UNCHANGED <<disk, loaded, ret, live, saved, packet, hist, bus, subs, api>>

\* a handler that reads: the guard is taken, the read made, the guard dropped
ApiRead(r) ==
    /\ can_lock(lock)
    /\ ret' = r
    /\ UNCHANGED <<store, disk, loaded, live, saved, segVars, srvVars>>

\* api::list_flights
ApiListFlights ==
    \E order \in IterOrders(DOMAIN store.index) :
        ApiRead(Ret("list_flights", NoKey, "Ok", Len(list_flights(store, order))))

\* api::get_flight
ApiGetFlight(flight_id) ==
    ApiRead(Ret("get_flight", flight_key(flight_id),
                IF get_flight(Self, flight_id) = None THEN "NOT_FOUND" ELSE "Ok", 0))

\* api::get_flight_data
ApiGetFlightData(flight_id) ==
    \E order \in IterOrders(DOMAIN store.index) :
        ApiRead(Ret("get_flight_data", flight_key(flight_id), "Ok",
                    Len(get_flight_data(store, flight_id, order))))

\* api::delete_flight, the guard taken and the metadata key deleted (storage.rs
\* line 346); when the key is not there the call returns and the guard is dropped
ApiDeleteBeginStep(r, flight_id, d) ==
    /\ store' = d.store
    /\ IF d.err = "Ok"
       THEN /\ lock' = Some(r)
            /\ api' = [api EXCEPT ![r] = [pc |-> "deleting", flight_id |-> flight_id]]
            /\ ret' = ret
       ELSE /\ ret' = Ret("delete_flight", flight_key(flight_id), d.err, 0)
            /\ UNCHANGED <<lock, api>>

ApiDeleteBegin(r, flight_id) ==
    /\ api[r].pc = "idle"
    /\ can_lock(lock)
    /\ ApiDeleteBeginStep(r, flight_id, delete(store, flight_key(flight_id)))
    /\ UNCHANGED <<disk, loaded, live, saved, segVars, ingest, bus, subs>>

\* delete_flight from the collection of the telemetry keys on (lines 348-365),
\* and the guard dropped
ApiDeleteEndStep(r, res) ==
    /\ store' = res.self.store
    /\ ret' = Ret("delete_flight", flight_key(api[r].flight_id), res.err, 0)
    /\ lock' = None
    /\ api' = [api EXCEPT ![r] = NewRequest]

ApiDeleteEnd(r) ==
    /\ api[r].pc = "deleting"
    /\ \E order \in IterOrders(DOMAIN store.index) :
           ApiDeleteEndStep(r, delete_flight_compact(
                                   Self,
                                   delete_keys(StoreOk(store, NoEntry, 0),
                                               keys_to_delete(order, telem_prefix(api[r].flight_id))),
                                   order))
    /\ UNCHANGED <<disk, loaded, live, saved, segVars, ingest, bus, subs>>

\* handle_socket, lines 31-34, asking for the guard as the handlers do
ApiAttach(s) ==
    /\ subs[s].pc = "idle"
    /\ can_lock(lock)
    /\ lock' = Some(s)
    /\ \E order \in IterOrders(DOMAIN store.index) :
           subs' = [subs EXCEPT ![s].pc = "backfill",
                                ![s].flight = get_current_flight_id(Self),
                                ![s].pending = backfill_packets(Self, order)]
    /\ UNCHANGED <<storeVars, segVars, ingest, bus, api>>

ApiNext ==
    \/ \E sh \in ServeShapes :
           hist.packets < MaxApiFrames /\ ApiIngestBegin(make_packet(sh, last_packet_time))
    \/ ApiIngestEnd
    \/ IngestSend
    \/ ApiListFlights
    \/ \E flight_id \in FlightIds : ApiGetFlight(flight_id)
    \/ \E flight_id \in FlightIds : ApiGetFlightData(flight_id)
    \/ \E r \in Requests, flight_id \in FlightIds : ApiDeleteBegin(r, flight_id)
    \/ \E r \in Requests : ApiDeleteEnd(r)
    \/ \E s \in Subscribers : ApiAttach(s)
    \/ \E s \in Subscribers : BackfillSend(s)
    \/ \E s \in Subscribers : BackfillEnd(s)

SpecApi == StoreInit /\ [][ApiNext]_vars

(***************************************************************************)
(* The ingest task from its start: run_binary_client connects, reads the   *)
(* messages of the upstream until the stream closes or fails, sleeps and   *)
(* connects again.  A frame is given by its length and by the packet its   *)
(* first PACKET_SIZE bytes decode to.                                      *)
(***************************************************************************)
PACKET_SIZE == 113

\* most packets saved in a run
MaxIngestPackets == 3

\* the lengths of the binary frames the upstream sends
FrameLengths == {0, PACKET_SIZE - 1, PACKET_SIZE, PACKET_SIZE + 1}

Frame(len, p) == [len |-> len, packet |-> p]

\* variant of from_bytes that decodes a frame of any length
from_bytes_any_length(frame) == [err |-> "Ok", packet |-> frame.packet]

\* TelemetryPacket::from_bytes
from_bytes(frame) ==
    IF frame.len < PACKET_SIZE
    THEN [err |-> "Insufficient bytes for telemetry packet", packet |-> frame.packet]
    ELSE [err |-> "Ok", packet |-> frame.packet]

\* main: as SrvInit, the task run_binary_client at its first connect_async
IngestInit ==
    /\ StorageInit
    /\ lock = None
    /\ ingest = [pc |-> "connect", packet |-> None, saved |-> <<>>]
    /\ bus = <<>>
    /\ subs = [s \in Subscribers |-> NewSubscriber]
    /\ api = [r \in Requests |-> NewRequest]

\* what the ingest task did last, for the steps that change nothing else
Event(op, n) ==
    /\ ret' = Ret(op, NoKey, "Ok", n)
    /\ UNCHANGED <<store, disk, loaded, live, saved, segVars, lock, bus, subs, api>>

\* connect_async(&url).await, lines 18-21 and 48-51
Connect(ok) ==
    /\ ingest.pc = "connect"
    /\ ingest' = [ingest EXCEPT !.pc = IF ok THEN "recv" ELSE "sleep_failed"]
    /\ Event(IF ok THEN "connected" ELSE "connect_failed", 0)

\* the sleep of 5 s after a failed connect, line 51
SleepFailed ==
    /\ ingest.pc = "sleep_failed"
    /\ ingest' = [ingest EXCEPT !.pc = "sleep"]
    /\ Event("slept", 1)

\* the sleep of 5 s before the loop connects again, line 56
Sleep ==
    /\ ingest.pc = "sleep"
    /\ ingest' = [ingest EXCEPT !.pc = "connect"]
    /\ Event("slept", 2)

\* read.next().await gives a binary frame, lines 23-33
RecvFrameStep(frame, d) ==
    IF d.err = "Ok"
    THEN /\ lock = None
         /\ SavePacketStep(save_packet(Self, d.packet), d.packet,
                           detect_flight_state(check_timeout(Self, d.packet), d.packet))
         /\ ingest' = [pc |-> "send", packet |-> Some(d.packet),
                       saved |-> Append(ingest.saved,
                                        [packet |-> d.packet, flight |-> current_flight_id'])]
         /\ ret' = Ret("frame", NoKey, "Ok", frame.len)
         /\ UNCHANGED <<disk, loaded, live, saved, lock, bus, subs, api>>
    ELSE /\ UNCHANGED ingest
         /\ Event("frame_dropped", frame.len)

RecvFrame(frame) ==
    /\ ingest.pc = "recv"
    /\ RecvFrameStep(frame, from_bytes(frame))

\* read.next().await gives Close, an error or the end of the stream (lines
\* 36-43 and the end of the while let): the loop over the messages ends
RecvEnd(why) ==
    /\ ingest.pc = "recv"
    /\ ingest' = [ingest EXCEPT !.pc = "sleep"]
    /\ Event(why, 0)

\* read.next().await gives a message of another kind, line 44
RecvOther ==
    /\ ingest.pc = "recv"
    /\ UNCHANGED ingest
    /\ Event("ignored", 0)

IngestNext ==
    \/ \E ok \in BOOLEAN : Connect(ok)
    \/ SleepFailed
    \/ Sleep
    \/ \E sh \in ServeShapes, len \in FrameLengths :
           /\ hist.packets < MaxIngestPackets
           /\ RecvFrame(Frame(len, make_packet(sh, last_packet_time)))
    \/ \E why \in {"closed", "error", "ended"} : RecvEnd(why)
    \/ RecvOther
    \/ IngestSend

SpecIngest == IngestInit /\ [][IngestNext]_vars

\* the timers of the sleeps fire and the connect attempt returns
SpecIngestFair ==
    /\ SpecIngest
    /\ WF_vars(SleepFailed) /\ WF_vars(Sleep)

(***************************************************************************)
(* The segmenter on packets whose timestamps go back.  The subtraction     *)
(* packet.timestamp - metadata.start_time (storage.rs:205) is on u64: when *)
(* the timestamp is below start_time it panics in a build with overflow    *)
(* checks and wraps in a build without them.  A run is of one build.       *)
(***************************************************************************)
RegressShapes ==
    { Shape(51, 0, 10, 0, 1000),      \* airborne
      Shape(51, 0, 10, 0, -500),      \* airborne, with an earlier timestamp
      Shape(0, 0, 0, 0, 1000),        \* on the ground
      Shape(0, 0, 0, 0, -1500) }      \* on the ground, with an earlier timestamp

MaxRegressPackets == 4

\* t is the storage as save_packet has it when it calls update_flight_metadata:
\* the subtraction of line 205 is reached with a timestamp below start_time
sub_underflows(t, p) ==
    /\ IsSome(t.current_flight_id)
    /\ \E m \in {get_flight(t, Unwrap(t.current_flight_id))} :
           IsSome(m) /\ p.timestamp < Unwrap(m).start_time

\* save_packet in a build with overflow checks (checks) or without: the panic
\* leaves the storage as it is at line 205, the telemetry record put
save_packet_build(t, p, checks) ==
    IF checks /\ sub_underflows(save_packet_begin(t, p), p)
    THEN save_packet_begin(t, p)
    ELSE save_packet(t, p)

RegressStep(t, p, d, checks, under) ==
    /\ SetSelf(t)
    /\ packet' = Some(p)
    /\ hist' = [hist EXCEPT
                   !.packets = @ + 1,
                   !.takeoffs = @ + (IF takes_off(d) THEN 1 ELSE 0),
                   !.returns = @ + (IF d.self.flight_state = "Landing" /\ d.new_state = "InFlight"
                                    THEN 1 ELSE 0),
                   !.confirmed = IF d.self.flight_state = "Landing" /\ d.new_state = "OnGround"
                                 THEN stable_duration(d.self, p) ELSE @,
                   !.checks = IF under THEN Some(checks) ELSE @,
                   !.aborted = under /\ checks]

\* storage.save_packet(&packet) in the build of the run
SavePacketBuild(p, checks) ==
    /\ ~hist.aborted
    /\ hist.checks \in {None, Some(checks)}
    /\ p.timestamp >= 0
    /\ RegressStep(save_packet_build(Self, p, checks), p,
                   detect_flight_state(check_timeout(Self, p), p), checks,
                   sub_underflows(save_packet_begin(Self, p), p))
    /\ UNCHANGED <<disk, loaded, ret, live, saved, srvVars>>

RegressNext ==
    \E sh \in RegressShapes, checks \in BOOLEAN :
        /\ hist.packets < MaxRegressPackets
        /\ SavePacketBuild(make_packet(sh, last_packet_time), checks)

SpecRegress == StoreInit /\ [][RegressNext]_vars

(***************************************************************************)
(* serialize_value and deserialize_value on a record of which one bit was  *)
(* changed after it was written (lib.rs:36-48 changes the first payload    *)
(* byte).  ret holds the value, the bytes handed to deserialize_value,     *)
(* the bit changed and the result.                                         *)
(***************************************************************************)
\* "hello" (lib.rs:22), repeated beyond its length
Hello == <<104, 101, 108, 108, 111>>
TextOf(n) == [k \in 1..n |-> Hello[((k - 1) % 5) + 1]]

\* longest text of the values
MaxCrcText == 5

CrcValues ==
    {ValueString(TextOf(n)) : n \in 0..MaxCrcText}
    \cup {ValueInt(0), ValueInt(1), ValueInt(-1), ValueInt(-100), ValueInt(65535)}

\* bytes[offset] ^= 1 << bit (offset 0-based)
flip_bit(bytes, offset, bit) == [bytes EXCEPT ![offset + 1] = BXor(@, 2 ^ bit)]

Deserialized(op, value, bytes, at) ==
    [op |-> op, value |-> value, bytes |-> bytes, at |-> at,
     result |-> deserialize_value(bytes)]

\* let s = serialize_value(&v); deserialize_value(&s)
Serialized(value) == Deserialized("serialize_value", value, serialize_value(value), None)

CrcInit ==
    /\ store = NewStore
    /\ disk = NoFiles
    /\ loaded = NotLoaded
    /\ \E value \in CrcValues : ret = Serialized(value)
    /\ live = [k \in {} |-> ValueInt(0)]
    /\ saved = None
    /\ hist = HistInit
    /\ SegInit
    /\ SrvInit

\* s[offset] ^= 1 << bit on a payload byte, then deserialize_value(&s)
FlipPayloadBit(offset, bit) ==
    /\ ret.op = "serialize_value"
    /\ offset >= HEADER_SIZE
    /\ ret' = Deserialized("flip_payload", ret.value, flip_bit(ret.bytes, offset, bit),
                           Some(<<offset, bit>>))
    /\ UNCHANGED <<store, disk, loaded, live, saved, segVars, srvVars>>

\* the same on a byte of the header
FlipHeaderBit(offset, bit) ==
    /\ ret.op = "serialize_value"
    /\ offset < HEADER_SIZE
    /\ ret' = Deserialized("flip_header", ret.value, flip_bit(ret.bytes, offset, bit),
                           Some(<<offset, bit>>))
    /\ UNCHANGED <<store, disk, loaded, live, saved, segVars, srvVars>>

\* the next value is serialized
SerializeNext(value) ==
    /\ ret.op # "serialize_value"
    /\ ret' = Serialized(value)
    /\ UNCHANGED <<store, disk, loaded, live, saved, segVars, srvVars>>

CrcNext ==
    \/ \E offset \in 0..(Len(ret.bytes) - 1), bit \in 0..7 : FlipPayloadBit(offset, bit)
    \/ \E offset \in 0..(Len(ret.bytes) - 1), bit \in 0..7 : FlipHeaderBit(offset, bit)
    \/ \E value \in CrcValues : SerializeNext(value)

SpecCrc == CrcInit /\ [][CrcNext]_vars

(***************************************************************************)
(* get_flight_phase on packets around its thresholds.  packet is the       *)
(* packet decoded, ret the phase returned for it.                          *)
(***************************************************************************)
\* how far, in tenths, the values of the packets lie around each threshold
PhaseMargin == 1

Around(c) == (c - PhaseMargin)..(c + PhaseMargin)

PhaseAltitudes ==
    {NaN, 0} \cup Around(GROUND_ALTITUDE) \cup Around(LANDING_ALTITUDE) \cup Around(CRUISE_ALTITUDE)
PhaseRates == {NaN, 0} \cup Around(CLIMB_RATE) \cup Around(DESCENT_RATE)
PhaseSpeeds == {NaN, 0} \cup Around(TAKEOFF_SPEED)

phase_packet(altitude_baro, vertical_speed, ground_speed) ==
    [latitude |-> 0, longitude |-> 0, altitude_gps |-> 0, ground_speed |-> ground_speed,
     altitude_baro |-> altitude_baro, vertical_speed |-> vertical_speed,
     battery_voltage |-> 120, timestamp |-> 1000]

PhaseInit ==
    /\ store = NewStore
    /\ disk = NoFiles
    /\ loaded = NotLoaded
    /\ ret = Ret("from_bytes", NoKey, "Ok", 0)
    /\ live = [k \in {} |-> ValueInt(0)]
    /\ saved = None
    /\ hist = HistInit
    /\ current_flight_id = None
    /\ flight_state = "OnGround"
    /\ landing_check_start = None
    /\ last_position = None
    /\ last_packet_time = None
    /\ total_distance_km = 0
    /\ last_phase = None
    /\ \E a \in PhaseAltitudes, v \in PhaseRates, g \in PhaseSpeeds :
           packet = Some(phase_packet(a, v, g))
    /\ SrvInit

\* packet.get_flight_phase()
GetFlightPhase ==
    /\ ret.op = "from_bytes"
    /\ ret' = [op |-> "get_flight_phase", phase |-> get_flight_phase(Unwrap(packet))]
    /\ UNCHANGED <<store, disk, loaded, live, saved, segVars, srvVars>>

\* the next packet is decoded
NextPhasePacket(a, v, g) ==
    /\ ret.op = "get_flight_phase"
    /\ packet' = Some(phase_packet(a, v, g))
    /\ ret' = Ret("from_bytes", NoKey, "Ok", 0)
    /\ UNCHANGED <<store, disk, loaded, live, saved, current_flight_id, flight_state,
                   landing_check_start, last_position, last_packet_time,
                   total_distance_km, last_phase, hist, srvVars>>

PhaseNext ==
    \/ GetFlightPhase
    \/ \E a \in PhaseAltitudes, v \in PhaseRates, g \in PhaseSpeeds : NextPhasePacket(a, v, g)

SpecPhase == PhaseInit /\ [][PhaseNext]_vars

(***************************************************************************)
(* A Store opened on snapshot files of which a record or an offset was     *)
(* changed after the save, the CRC32 in meta matching the changed file, so *)
(* that load accepts them (load compares the checksums of the files and    *)
(* does not decode the records nor compare the offsets with the buffer).   *)
(* The operations that decode records are then run on the Store.           *)
(***************************************************************************)
\* most puts of a run
MaxCorruptPuts == 2

\* meta with the CRC32 of the data file set to that of data_buf
reseal_data(meta_buf, data_buf) ==
    Slice(meta_buf, 0, 8) \o calculate_crc32(data_buf) \o Slice(meta_buf, 12, Len(meta_buf))

SetData(data_buf) ==
    Tamper([disk EXCEPT !.data = Some(data_buf),
                        !.meta = Some(reseal_data(Unwrap(disk.meta), data_buf))])

\* the bytes of the data file that are altered: in the first record the low
\* byte of the length, a byte of the checksum, the tag and the first byte of
\* the payload, and the last byte of the file
DataPositions(file) ==
    IF file = None THEN {} ELSE {k \in {1, 9, 13, 14, Len(Unwrap(file))} : k <= Len(Unwrap(file))}

ChangeDataByte(k) == SetData(flip(Unwrap(disk.data), k))

\* the data file loses its last byte
CutData ==
    /\ Len(Unwrap(disk.data)) > 0
    /\ SetData(Slice(Unwrap(disk.data), 0, Len(Unwrap(disk.data)) - 1))

\* offsets written into the keys file in place of the one saved: inside the
\* first record, at the end of the buffer, beyond it
OtherOffsets(data_buf) == {1, Len(data_buf), Len(data_buf) + 1}

ChangeOffset(key, offset) ==
    /\ key \in DOMAIN store.index
    /\ SetKeys(save_keys([index |-> (key :> offset) @@ store.index],
                         SetToSeq(DOMAIN store.index)))

\* Store::with_path on the changed files, the Store it returns taking the
\* place of the one that was saved
Reopen ==
    /\ ret.op = "tamper"
    /\ with_path(disk, BASE_PATH).err = "Ok"
    /\ store' = with_path(disk, BASE_PATH).store
    /\ LoadStep(with_path(disk, BASE_PATH))
    /\ UNCHANGED <<disk, live, saved, hist>>

\* the Store of the run is the one opened on the changed files
Reopened == loaded.done /\ ~hist.aborted

\* store.get(&key)
CorruptGet(key) ==
    /\ Reopened
    /\ ret' = Ret("get", key, get(store, key).err, 0)
    /\ UNCHANGED <<store, disk, loaded, live, saved, hist>>

\* store.values().collect(), and the same of store.iter(): one get per key
CorruptValues ==
    /\ Reopened
    /\ ret' = Ret("values", NoKey, [key \in DOMAIN store.index |-> get(store, key).err], 0)
    /\ UNCHANGED <<store, disk, loaded, live, saved, hist>>

\* store.buffer_iter().collect()
CorruptBufferIter ==
    /\ Reopened
    /\ ret' = Ret("buffer_iter", NoKey,
                  [k \in 1..Len(buffer_iter(store)) |-> buffer_iter(store)[k].err], 0)
    /\ UNCHANGED <<store, disk, loaded, live, saved, hist>>

\* store.compact(), the index iterated in the given order
CorruptCompactStep(r, order) ==
    /\ store' = r.store
    /\ ret' = [op |-> "compact", key |-> NoKey, err |-> r.err, n |-> r.n, order |-> order]
    /\ hist' = [hist EXCEPT !.aborted = r.err = "panic"]
    /\ UNCHANGED <<disk, loaded, live, saved>>

CorruptCompact ==
    /\ Reopened
    /\ \E order \in IterOrders(DOMAIN store.index) :
           CorruptCompactStep(compact(store, order), order)

CorruptNext ==
    \/ \E key \in StoreKeys, value \in SnapValues :
           /\ hist.puts < MaxCorruptPuts
           /\ ~loaded.done /\ ret.op # "tamper"
           /\ Put(key, value)
           /\ hist' = [hist EXCEPT !.puts = @ + 1]
           /\ UNCHANGED <<segVarsNoHist, srvVars>>
    \/ ~loaded.done /\ ret.op = "put" /\ Save /\ UNCHANGED <<segVars, srvVars>>
    \/ \E k \in DataPositions(disk.data) :
           Pristine /\ ChangeDataByte(k) /\ UNCHANGED <<segVars, srvVars>>
    \/ Pristine /\ CutData /\ UNCHANGED <<segVars, srvVars>>
    \/ \E key \in StoreKeys, offset \in OtherOffsets(store.data) :
           Pristine /\ ChangeOffset(key, offset) /\ UNCHANGED <<segVars, srvVars>>
    \/ Reopen /\ UNCHANGED <<segVarsNoHist, srvVars>>
    \/ \E key \in StoreKeys : CorruptGet(key) /\ UNCHANGED <<segVarsNoHist, srvVars>>
    \/ CorruptValues /\ UNCHANGED <<segVarsNoHist, srvVars>>
    \/ CorruptBufferIter /\ UNCHANGED <<segVarsNoHist, srvVars>>
    \/ CorruptCompact /\ UNCHANGED <<segVarsNoHist, srvVars>>

SpecCorrupt == StoreInit /\ [][CorruptNext]_vars

(***************************************************************************)
(* save() on buffers with and without garbage: puts and deletes make the   *)
(* fragmentation, and a save may stop after any of its three writes.       *)
(***************************************************************************)
\* most puts of a run
MaxSavePuts == 3

\* the run ends with the first save that is returned an error
SaveFailed == ret.op = "save" /\ ret.err # "Ok"

SavePolicyNext ==
    \/ \E key \in StoreKeys, value \in SnapValues :
           /\ ~SaveFailed /\ hist.puts < MaxSavePuts
           /\ Put(key, value)
           /\ hist' = [hist EXCEPT !.puts = @ + 1]
           /\ UNCHANGED <<segVarsNoHist, srvVars>>
    \/ \E key \in StoreKeys : ~SaveFailed /\ Delete(key) /\ UNCHANGED <<segVars, srvVars>>
    \/ \E n \in 0..WritesPerSave :
           ~SaveFailed /\ FileSave(n) /\ UNCHANGED <<segVarsNoHist, srvVars>>

SpecSavePolicy == StoreInit /\ [][SavePolicyNext]_vars

(***************************************************************************)
(* The server with subscribers that may stop reading.  The ingest task is  *)
(* taken from the frame it decoded to the guard it waits for; the steps of *)
(* the tasks are scheduled fairly and the Mutex, which queues its waiters, *)
(* is given to a task that keeps asking.  socket.send(..).await returns    *)
(* when the peer takes the message or the connection fails: neither has to *)
(* happen, so the sends carry no fairness.                                 *)
(***************************************************************************)
\* most frames the upstream delivers in a run
MaxStallFrames == 2

\* run_binary_client, lines 23-26: a frame arrived and decodes to packet p;
\* the task goes on to storage.lock().await
StallDecode(p) ==
    /\ ingest.pc = "recv"
    /\ ingest' = [ingest EXCEPT !.pc = "lock", !.packet = Some(p)]
    /\ UNCHANGED <<storeVars, segVars, lock, bus, subs, api>>

StallSaveStep(p) ==
    /\ SavePacketStep(save_packet(Self, p), p, detect_flight_state(check_timeout(Self, p), p))
    /\ ingest' = [ingest EXCEPT !.pc = "send",
                                !.saved = Append(@, [packet |-> p,
                                                     flight |-> current_flight_id'])]

\* run_binary_client, line 28: the guard is given, save_packet runs and the
\* guard is dropped
StallSave ==
    /\ ingest.pc = "lock"
    /\ can_lock(lock)
    /\ StallSaveStep(Unwrap(ingest.packet))
    /\ UNCHANGED <<disk, loaded, ret, live, saved, lock, bus, subs, api>>

StallNext ==
    \/ \E sh \in ServeShapes :
           /\ Len(ingest.saved) < MaxStallFrames
           /\ StallDecode(make_packet(sh, last_packet_time))
    \/ StallSave
    \/ IngestSend
    \/ \E s \in Subscribers : ApiAttach(s)
    \/ \E s \in Subscribers : BackfillSend(s)
    \/ \E s \in Subscribers : BackfillEnd(s)
    \/ \E s \in Subscribers : Subscribe(s)
    \/ \E s \in Subscribers : Recv(s)
    \/ \E s \in Subscribers : LiveSend(s)
    \/ \E s \in Subscribers : SendFails(s)

\* ENABLED <<StallSave>>_vars: save_packet has a result for every packet
StallSaveEnabled == ingest.pc = "lock" /\ can_lock(lock)

\* ENABLED <<ApiAttach(s)>>_vars
AttachEnabled(s) == subs[s].pc = "idle" /\ can_lock(lock)

\* SF_vars(StallSave), with its enabling condition written out
StallSaveFair == <>[](~StallSaveEnabled) \/ []<><<StallSave>>_vars

\* SF_vars(ApiAttach(s)), with its enabling condition written out
AttachFair(s) == <>[](~AttachEnabled(s)) \/ []<><<ApiAttach(s)>>_vars

SpecStall ==
    /\ StoreInit /\ [][StallNext]_vars
    /\ StallSaveFair /\ WF_vars(IngestSend)
    /\ \A s \in Subscribers :
           /\ AttachFair(s) /\ WF_vars(BackfillEnd(s))
           /\ WF_vars(Subscribe(s)) /\ WF_vars(Recv(s))

(***************************************************************************)
(* Properties of the Store                                                 *)
(***************************************************************************)

\* what get must return for key k when the puts, deletes and clears so far
\* leave the mapping m
Expected(m, k) ==
    IF k \in DOMAIN m THEN [err |-> "Ok", entry |-> EntryOf(m[k])]
    ELSE [err |-> "KeyNotFound", entry |-> NoEntry]

\* C1: after any sequence of put/delete/compact/clear, get(K) returns the value
\* of the most recent put(K, V) not followed by delete(K) or clear() (so a second
\* put of K wins over the first), and KeyNotFound for a key never put, deleted
\* or cleared.
C1_GetAfterPut == \A k \in StoreKeys : Outcome(get(store, k)) = Expected(live, k)

\* a key was put twice (more records in the buffer than keys in the index), the
\* last put is visible, and another key is absent
C1_Witness ==
    /\ ret.op = "put"
    /\ Len(buffer_iter(store)) > Cardinality(DOMAIN store.index)
    /\ Outcome(get(store, ret.key)).err = "Ok"
    /\ \E k \in StoreKeys : k \notin DOMAIN live

DeleteEffect(s, t, r) ==
    /\ Len(t.data) >= Len(s.data)
    /\ (r.key \in DOMAIN s.index) <=> (r.err = "Ok")
    /\ (r.key \notin DOMAIN s.index) <=> (r.err = "KeyNotFound")
    /\ r.err = "Ok" =>
          /\ Outcome(get(t, r.key)).err = "KeyNotFound"
          /\ \A k \in StoreKeys \ {r.key} : Outcome(get(t, k)) = Outcome(get(s, k))
    /\ r.err = "KeyNotFound" => t.index = s.index /\ t.data = s.data

\* C2: a successful delete(K) makes get(K) KeyNotFound and leaves get(K') of
\* every other key as it was; delete of a key not in the index returns
\* KeyNotFound and changes neither the index nor the buffer; delete never
\* shrinks the buffer.
C2_DeleteRemovesOneKey == [][ret'.op = "delete" => DeleteEffect(store, store', ret')]_vars

\* a delete succeeded while another key stayed live
C2_Witness ==
    /\ ret.op = "delete"
    /\ ret.err = "Ok"
    /\ \E k \in StoreKeys \ {ret.key} : Outcome(get(store, k)).err = "Ok"

CompactEffect(s, t, r) ==
    /\ r.err = "Ok"
    /\ GetMap(t) = GetMap(s)
    /\ Len(t.data) <= Len(s.data)
    /\ wasted_size(s) > 0 => Len(t.data) < Len(s.data)
    /\ r.n = Len(s.data) - Len(t.data)
    /\ wasted_size(t) = 0

\* C3: on any store reached by put/delete/clear/compact, compact() leaves
\* get(K) as it was for every key (live keys keep their value, deleted keys stay
\* KeyNotFound); the buffer does not grow, and shrinks strictly when it holds
\* the bytes of an overwritten or deleted record; the returned count is the old
\* size minus the new size; afterwards no byte of the buffer is unreferenced.
C3_CompactionPreservation == [][ret'.op = "compact" => CompactEffect(store, store', ret')]_vars

\* a compaction reclaimed bytes while a key was live and another was absent
C3_Witness ==
    /\ ret.op = "compact"
    /\ ret.n > 0
    /\ \E k \in StoreKeys : Outcome(get(store, k)).err = "Ok"
    /\ \E k \in StoreKeys : Outcome(get(store, k)).err = "KeyNotFound"

\* C4: after a successful save() of a store with a path, reached by
\* put/delete/compact, load(path) succeeds and get returns for every key what
\* it returned on the saved store, whether or not save compacted first.
C4_SnapshotRoundTrip ==
    (loaded.done /\ IsSome(loaded.of)) =>
        /\ loaded.err = "Ok"
        /\ GetMap(loaded.store) = Unwrap(loaded.of).map

\* a load after a save that compacted, with a live key in the snapshot
C4_Witness ==
    /\ loaded.done
    /\ IsSome(loaded.of)
    /\ Unwrap(loaded.of).compacted
    /\ \E k \in StoreKeys : Unwrap(loaded.of).map[k].err = "Ok"

\* a load after a save that did not compact, with a live key in the snapshot
C4_WitnessNoCompaction ==
    /\ loaded.done
    /\ IsSome(loaded.of)
    /\ ~Unwrap(loaded.of).compacted
    /\ \E k \in StoreKeys : Unwrap(loaded.of).map[k].err = "Ok"

(***************************************************************************)
(* Properties of the flight segmenter                                      *)
(***************************************************************************)
\* what list_flights() returns
Flights(s) == list_flights(s, SetToSeq(DOMAIN s.index))

\* the keys telem:<id>:* of the index
TelemKeys(s, flight_id) ==
    {key \in DOMAIN s.index : key.tag = TAG_TEXT /\ starts_with(key.s, telem_prefix(flight_id))}

\* the step is a save_packet
IsSavePacket == hist'.packets = hist.packets + 1

\* is_on_ground as the contract words it: altitude_gps <= 5, ground_speed <= 2
\* and the position within 0.0001 degrees of the last one, if any
OnGroundPacket(last, p) ==
    /\ p.altitude_gps <= 50
    /\ p.ground_speed <= 20
    /\ IsSome(last) => /\ Abs(p.latitude - Unwrap(last)[1]) < 100
                       /\ Abs(p.longitude - Unwrap(last)[2]) < 100

\* C5: after any prefix of a packet stream fed to save_packet from an empty
\* store, list_flights() returns as many flights as the segmenter has taken
\* OnGround -> InFlight transitions, closed and open flights alike (so every
\* transition got a flight id no existing flight had).
C5_FlightCount == Len(Flights(store)) = hist.takeoffs

\* two transitions were taken: one flight is closed, one is open
C5_Witness ==
    /\ hist.takeoffs = 2
    /\ IsSome(current_flight_id)
    /\ \E k \in 1..Len(Flights(store)) :
           Flights(store)[k].flight_id # Unwrap(current_flight_id)

OpenFlightIds(F) ==
    {F[k].flight_id : k \in {j \in 1..Len(F) : F[j].current_status # STATUS_LANDED
                                               /\ F[j].ended_normally}}

AtMostOneOpen(open, current) ==
    /\ Cardinality(open) <= 1
    /\ \A id \in open : current = Some(id)

\* C6: at any point at most one flight metadata record has current_status
\* other than "Landed" together with ended_normally = true, and such a record
\* is the record of the segmenter's currently-active flight id.
C6_AtMostOneOpenFlight == AtMostOneOpen(OpenFlightIds(Flights(store)), current_flight_id)

\* two records are open at once, the second flight begun after a restart
C6_TwoOpenFlights == Cardinality(OpenFlightIds(Flights(store))) = 2

PacketCountOk(s, F) ==
    \A k \in 1..Len(F) : F[k].packet_count = Cardinality(TelemKeys(s, F[k].flight_id))

\* C7: for each flight, after any sequence of save_packet calls, packet_count
\* equals the number of telem:<id>:* records in the store, also when several
\* accepted packets carry the same timestamp.
C7_PacketCount == PacketCountOk(store, Flights(store))

\* a flight whose packet_count is above the number of its telem records
C7_CountAboveRecords ==
    \E k \in 1..Len(Flights(store)) :
        Flights(store)[k].packet_count
            > Cardinality(TelemKeys(store, Flights(store)[k].flight_id))

DistanceStep(F, G) ==
    \A j \in 1..Len(G) :
        IF \E k \in 1..Len(F) : F[k].flight_id = G[j].flight_id
        THEN \A k \in 1..Len(F) :
                 F[k].flight_id = G[j].flight_id => G[j].distance_km >= F[k].distance_km
        ELSE G[j].distance_km = 0

\* C8: from one state of the store to the next, the distance_km of a flight's
\* metadata never decreases (through every accepted packet and through a
\* normal or a catastrophic close), and the metadata of a flight that appears
\* has distance_km = 0.
C8_DistanceMonotone ==
    [][\A F \in {Flights(store)} : \A G \in {Flights(store')} : DistanceStep(F, G)]_vars

\* a flight closed by a timeout that keeps a distance above 0
C8_Witness ==
    \E k \in 1..Len(Flights(store)) :
        /\ ~Flights(store)[k].ended_normally
        /\ Flights(store)[k].distance_km > 0

\* a flight closed normally that keeps a distance above 0
C8_WitnessLanded ==
    \E k \in 1..Len(Flights(store)) :
        /\ Flights(store)[k].current_status = STATUS_LANDED
        /\ Flights(store)[k].distance_km > 0

FLIGHT_001 == FLIGHT_ID_PREFIX \o <<48, 48, 49>>

\* the flights of G that are not among those of F
NewFlights(F, G) ==
    {j \in 1..Len(G) : \A k \in 1..Len(F) : F[k].flight_id # G[j].flight_id}

\* the packet p created the one flight m, and is its only record
FlightCreated(s, m, p, current) ==
    /\ m.start_time = p.timestamp
    /\ m.packet_count = 1
    /\ current = Some(m.flight_id)
    /\ TelemKeys(s, m.flight_id) = {telem_key(m.flight_id, p.timestamp)}
    /\ packet_of_get(get(s, telem_key(m.flight_id, p.timestamp))) = Some(p)

TakeoffStep(F, G, p) ==
    IF OnGroundPacket(last_position, p)
    THEN /\ store' = store
         /\ flight_state' = "OnGround"
         /\ current_flight_id' = None
    ELSE /\ Len(G) = Len(F) + 1
         /\ Cardinality(NewFlights(F, G)) = 1
         /\ \A j \in NewFlights(F, G) :
                /\ FlightCreated(store', G[j], p, current_flight_id')
                /\ DOMAIN store.index = {} => G[j].flight_id = FLIGHT_001

\* C9: while the segmenter is OnGround, a packet that is on-ground creates no
\* flight and stores nothing; a packet that is not on-ground creates exactly
\* one flight (flight_001 on an empty store) whose start_time is the packet's
\* timestamp, and the packet is stored as the flight's first and only record,
\* with packet_count = 1.
C9_Takeoff ==
    [][(IsSavePacket /\ flight_state = "OnGround")
          => \A F \in {Flights(store)} : \A G \in {Flights(store')} :
                 TakeoffStep(F, G, Unwrap(packet'))]_vars

\* on-ground packets came first and created nothing; the next packet created
\* flight_001
C9_Witness ==
    /\ hist.packets >= 2
    /\ hist.takeoffs = 1
    /\ current_flight_id = Some(FLIGHT_001)
    /\ Len(Flights(store)) = 1
    /\ Flights(store)[1].packet_count = 1
    /\ Flights(store)[1].start_time = Unwrap(packet).timestamp

\* the flight of this id was closed normally by the step
ClosedNormally(m) ==
    /\ m # None
    /\ Unwrap(m).current_status = STATUS_LANDED
    /\ Unwrap(m).ended_normally
    /\ current_flight_id' = None
    /\ flight_state' = "OnGround"

\* a save_packet step taken in state Landing; confirmed tells whether the
\* packet confirms the landing
LandingStep(p, confirmed) ==
    /\ ClosedNormally(get_flight([store |-> store'], Unwrap(current_flight_id))) <=> confirmed
    /\ ~OnGroundPacket(last_position, p) =>
           flight_state' = "InFlight" /\ landing_check_start' = None
    /\ (OnGroundPacket(last_position, p) /\ p.timestamp - Unwrap(landing_check_start) < 5000) =>
           /\ flight_state' = "Landing"
           /\ UNCHANGED <<landing_check_start, current_flight_id>>

\* the step InFlight -> Landing starts the timer at the packet's timestamp
LandingStart(p) ==
    (flight_state = "InFlight" /\ flight_state' = "Landing") =>
        OnGroundPacket(last_position, p) /\ landing_check_start' = Some(p.timestamp)

\* C10, as corrected: an open flight in Landing is closed normally exactly on
\* the first on-ground packet whose timestamp minus landing_check_start is
\* >= 5000 ms and that comes no more than 60000 ms after the previous packet;
\* landing_check_start is the timestamp of the on-ground packet that moved the
\* segmenter InFlight -> Landing; a not-on-ground packet received while Landing
\* returns the segmenter to InFlight and clears the timer; the closed flight
\* has current_status = "Landed" and ended_normally = true.
C10_LandingConfirmation ==
    [][IsSavePacket =>
          /\ LandingStart(Unwrap(packet'))
          /\ flight_state = "Landing" =>
                LandingStep(Unwrap(packet'),
                            /\ OnGroundPacket(last_position, Unwrap(packet'))
                            /\ Unwrap(packet').timestamp - Unwrap(landing_check_start) >= 5000
                            /\ Unwrap(packet').timestamp - Unwrap(last_packet_time) <= 60000)]_vars

\* C10, as stated: the flight is closed normally exactly on the first
\* on-ground packet whose timestamp minus landing_check_start is >= 5000 ms.
C10_LandingConfirmationAsStated ==
    [][IsSavePacket =>
          /\ LandingStart(Unwrap(packet'))
          /\ flight_state = "Landing" =>
                LandingStep(Unwrap(packet'),
                            /\ OnGroundPacket(last_position, Unwrap(packet'))
                            /\ Unwrap(packet').timestamp - Unwrap(landing_check_start)
                                   >= 5000)]_vars

\* a landing confirmed exactly 5000 ms after it began: the flight is closed
C10_Witness ==
    /\ hist.confirmed = 5000
    /\ flight_state = "OnGround"
    /\ current_flight_id = None
    /\ Len(Flights(store)) = 1
    /\ Flights(store)[1].current_status = STATUS_LANDED
    /\ Flights(store)[1].ended_normally

\* a flight went back from Landing to InFlight
C10_WitnessReturn ==
    /\ hist.returns >= 1
    /\ flight_state = "InFlight"
    /\ landing_check_start = None
    /\ Len(Flights(store)) = 1

\* the step closed flight m catastrophically before it classified packet p:
\* no record of p went to the flight, and p began a flight only if it is not
\* on-ground
ClosedByTimeout(id, m, F, G, p) ==
    /\ IsSome(m) /\ ~Unwrap(m).ended_normally
    /\ TelemKeys(store', id) = TelemKeys(store, id)
    /\ IF OnGroundPacket(last_position, p)
       THEN /\ Len(G) = Len(F)
            /\ current_flight_id' = None
            /\ flight_state' = "OnGround"
       ELSE /\ Len(G) = Len(F) + 1
            /\ \A j \in NewFlights(F, G) :
                   FlightCreated(store', G[j], p, current_flight_id')

\* the step left flight m open, or closed it normally
NotClosedByTimeout(m, F, G) ==
    /\ IsSome(m) /\ Unwrap(m).ended_normally
    /\ Len(G) = Len(F)
    /\ \/ UNCHANGED current_flight_id
       \/ flight_state = "Landing" /\ ClosedNormally(m)

\* a save_packet step taken while flight id is open, gap being the packet's
\* timestamp minus last_packet_time (negative when the timestamp goes back)
TimeoutStep(id, gap, F, G, p) ==
    IF gap > 60000
    THEN ClosedByTimeout(id, get_flight([store |-> store'], id), F, G, p)
    ELSE NotClosedByTimeout(get_flight([store |-> store'], id), F, G)

\* C11: when a packet arrives more than 60000 ms after the previous one while
\* a flight is open, that flight is closed with ended_normally = false before
\* the packet is classified, and the packet creates a second flight only if it
\* is not on-ground; after a gap of exactly 60000 ms, or a negative one, the
\* timeout does not close the flight (ended_normally stays true, and the
\* flight stays the current one unless the packet confirms a landing).
C11_CatastrophicTimeout ==
    [][(IsSavePacket /\ IsSome(current_flight_id) /\ IsSome(last_packet_time))
          => \A F \in {Flights(store)} : \A G \in {Flights(store')} :
                 TimeoutStep(Unwrap(current_flight_id),
                             Unwrap(packet').timestamp - Unwrap(last_packet_time),
                             F, G, Unwrap(packet'))]_vars

\* a first flight was closed by a timeout; the packet began a second flight,
\* which then took a packet 60000 ms later and one with an earlier timestamp
C11_Witness ==
    /\ Len(Flights(store)) = 2
    /\ ~Flights(store)[1].ended_normally
    /\ current_flight_id = Some(Flights(store)[2].flight_id)
    /\ Flights(store)[2].packet_count = 3
    /\ Flights(store)[2].end_time = Flights(store)[2].start_time + 59500

\* a timeout closed the flight and the on-ground packet began none
C11_WitnessOnGround ==
    /\ Len(Flights(store)) = 1
    /\ ~Flights(store)[1].ended_normally
    /\ current_flight_id = None
    /\ Unwrap(packet).timestamp = Flights(store)[1].end_time + 60001

(***************************************************************************)
(* Properties of the server                                                *)
(***************************************************************************)
IsLive(e) == e.live
IsBackfill(e) == ~e.live

\* the timestamp of the packet a subscriber was sent
sent_timestamp(e) == Unwrap(packet_from_json(e.json)).timestamp

\* back and liv are the backfill and the live packets sent to a subscriber
\* whose receiver was created when from packets had been published
DeliveredInOrder(d, back, liv, from) ==
    /\ d = back \o liv
    /\ \A k \in 1..(Len(back) - 1) : sent_timestamp(back[k]) < sent_timestamp(back[k + 1])
    /\ liv # <<>> =>
           /\ IsSome(from)
           /\ Unwrap(from) + Len(liv) <= Len(bus)
           /\ \A k \in 1..Len(liv) : liv[k].json = packet_to_json(bus[Unwrap(from) + k])

\* C12: for any single subscriber, every backfill packet is delivered before
\* any live packet, the backfill packets are delivered in ascending timestamp
\* order, and the live packets are delivered in the order in which the ingest
\* loop published them.
C12_SubscriberOrdering ==
    \A s \in Subscribers :
        DeliveredInOrder(subs[s].delivered, SelectSeq(subs[s].delivered, IsBackfill),
                         SelectSeq(subs[s].delivered, IsLive), subs[s].from)

\* a subscriber was sent two backfill packets and then a live one
C12_Witness ==
    \E s \in Subscribers :
        /\ Len(subs[s].delivered) = 3
        /\ ~subs[s].delivered[1].live
        /\ ~subs[s].delivered[2].live
        /\ subs[s].delivered[3].live

\* subscriber s attached while the flight that is still open was open, has
\* taken every packet published so far, and the ingest task is between frames
CaughtUp(s) ==
    /\ subs[s].pc = "live"
    /\ Unwrap(subs[s].rx) = Len(bus)
    /\ ingest.pc = "recv"
    /\ IsSome(subs[s].flight)
    /\ current_flight_id = subs[s].flight

\* every packet of data was sent in d
AllSent(data, d) ==
    \A k \in 1..Len(data) : \E i \in 1..Len(d) : d[i].json = packet_to_json(data[k])

\* C13: a subscriber that attaches while a flight is open receives the
\* packets the flight held and the packets ingested afterwards, with no packet
\* of the flight missing, under every interleaving of the subscriber task
\* with the ingest task.
C13_BackfillThenLiveWithoutLoss ==
    \A s \in Subscribers :
        CaughtUp(s) =>
            AllSent(get_flight_data(store, Unwrap(subs[s].flight), SetToSeq(DOMAIN store.index)),
                    subs[s].delivered)

\* the flight holds three packets; a subscriber that is up to date was sent
\* the first as backfill and the third live, and never the second
C13_PacketMissed ==
    \E s \in Subscribers :
        /\ CaughtUp(s)
        /\ Len(bus) = 3
        /\ Len(get_flight_data(store, Unwrap(subs[s].flight), SetToSeq(DOMAIN store.index))) = 3
        /\ Len(subs[s].delivered) = 2
        /\ ~subs[s].delivered[1].live
        /\ subs[s].delivered[2].json = packet_to_json(bus[3])

\* the packets passed to save_packet are published one at a time, each after
\* its save_packet returned
PublishedAfterSaved(task, b) ==
    /\ Len(task.saved) = Len(b) + (IF task.pc = "send" THEN 1 ELSE 0)
    /\ \A k \in 1..Len(b) : b[k] = task.saved[k].packet
    /\ task.pc = "send" => task.packet = Some(task.saved[Len(task.saved)].packet)

\* the store holds a telem record of flight id for packet p
HasRecord(s, id, p) ==
    /\ telem_key(id, p.timestamp) \in DOMAIN s.index
    /\ packet_of_get(get(s, telem_key(id, p.timestamp))) = Some(p)

\* a publication is that of the packet whose save_packet came last
OnePublisher ==
    bus' # bus => ingest.pc = "send" /\ bus' = Append(bus, Unwrap(ingest.packet))

Sending(s) ==
    \/ subs[s].pc = "backfill" /\ subs[s].pending # <<>>
    \/ subs[s].pc = "send"

\* C15: in every reachable state in which a subscriber task is sending (or
\* waiting to send) a packet on its socket, that task does not hold the
\* storage lock.
C15_NoLockAcrossSend == \A s \in Subscribers : Sending(s) => lock # Some(s)

\* a subscriber holds the lock with two backfill packets still to send
C15_LockHeldWhileSending ==
    \E s \in Subscribers : lock = Some(s) /\ Len(subs[s].pending) = 2

\* subscriber s, more than the capacity behind, takes its next step: it goes
\* on receiving from the oldest packet the channel still has, and no other
\* subscriber is touched
OverflowStep(s) ==
    (subs[s].pc = "live" /\ lagged(subs[s].rx) /\ subs'[s] # subs[s]) =>
        /\ subs'[s].pc # "done"
        /\ subs'[s].rx = Some(Len(bus) - ChannelCapacity)
        /\ \A t \in Subscribers \ {s} : subs'[t] = subs[t]

\* C16: when more packets than the channel holds are undelivered to one
\* subscriber, only that subscriber loses its oldest undelivered packets and
\* it keeps receiving later packets; the other subscribers lose nothing; and
\* the publication by the ingest task never blocks.
C16_OverflowPerSubscriber ==
    [][/\ \A s \in Subscribers : OverflowStep(s)
       /\ ingest.pc = "send" => ENABLED IngestSend]_vars

\* a subscriber's task ended on the overflow while the other had received
\* all three packets
C16_SubscriberEnded ==
    \E s \in Subscribers, t \in Subscribers :
        /\ s # t
        /\ subs[s].pc = "done" /\ subs[s].delivered = <<>> /\ IsSome(subs[s].rx)
        /\ Len(subs[t].delivered) = 3

(***************************************************************************)
(* Properties of the flights: closed flights, delete_flight, the queries   *)
(***************************************************************************)
\* the step is a delete_flight; ret' tells of which flight and how it ended
IsDeleteFlight == hist'.packets = hist.packets /\ ret'.op = "delete_flight"

\* the flight of metadata m was closed, normally or by a timeout
Closed(m) == m.current_status = STATUS_LANDED \/ ~m.ended_normally

\* the keys of the records of flight id
FlightKeys(s, id) == (DOMAIN s.index \cap {flight_key(id)}) \cup TelemKeys(s, id)

\* the records under the keys K are where they were and read the same
Untouched(K) ==
    \A key \in K :
        /\ key \in DOMAIN store'.index
        /\ store'.index[key] = store.index[key]
        /\ Outcome(get(store', key)) = Outcome(get(store, key))

\* no save_packet changes the records of a closed flight of F
ClosedImmutable(F) ==
    \A k \in 1..Len(F) :
        Closed(F[k]) =>
            /\ Untouched(FlightKeys(store, F[k].flight_id))
            /\ FlightKeys(store', F[k].flight_id) = FlightKeys(store, F[k].flight_id)

\* a flight begun by the step has the id of no flight of F
FreshId(F) ==
    hist'.takeoffs = hist.takeoffs + 1 =>
        /\ IsSome(current_flight_id')
        /\ \A k \in 1..Len(F) : F[k].flight_id # Unwrap(current_flight_id')

\* a delete_flight leaves the records of the closed flights of F other than
\* the one it names as they read before
OthersReadable(F) ==
    \A k \in 1..Len(F) :
        (Closed(F[k]) /\ flight_key(F[k].flight_id) # ret'.key) =>
            /\ FlightKeys(store', F[k].flight_id) = FlightKeys(store, F[k].flight_id)
            /\ \A key \in FlightKeys(store, F[k].flight_id) : Outcome(get(store', key)) = Outcome(get(store, key))

\* C17: once a flight is closed (normally or by a timeout), no save_packet
\* changes its flight:<id> record or adds or overwrites a telem:<id>:*
\* record; only delete_flight(id) changes them; and a later flight never
\* receives the id of a flight that still exists.
C17_ClosedFlightsImmutable ==
    [][\A F \in {Flights(store)} :
           /\ IsSavePacket => ClosedImmutable(F) /\ FreshId(F)
           /\ IsDeleteFlight => OthersReadable(F)]_vars

\* flight_001 was deleted and flight_002, closed by a timeout, is still
\* there beside the flight begun after it
C17_Witness ==
    /\ Len(Flights(store)) = 2
    /\ flight_key(FLIGHT_ID_PREFIX \o <<48, 48, 49>>) \notin DOMAIN store.index
    /\ Closed(Flights(store)[1])
    /\ current_flight_id = Some(Flights(store)[2].flight_id)

\* a key that is no record of the flight named by ret'
OtherKeys(s) == {key \in DOMAIN s.index : key # ret'.key} \ TelemKeys(s, SubSeq(ret'.key.s, Len(FLIGHT_KEY_PREFIX) + 1, Len(ret'.key.s)))

\* the delete_flight of the step removed the records of its flight and no
\* other, and compacted
FlightDeleted(id) ==
    /\ ret'.err = "Ok"
    /\ FlightKeys(store', id) = {}
    /\ DOMAIN store'.index = OtherKeys(store)
    /\ \A key \in OtherKeys(store) : Outcome(get(store', key)) = Outcome(get(store, key))
    /\ wasted_size(store') = 0
    /\ Len(buffer_iter(store')) = Cardinality(DOMAIN store'.index)

\* C18: delete_flight(id) on an existing flight removes the flight:<id> key
\* and every telem:<id>:* key, leaves the metadata and telemetry records of
\* every other flight readable with unchanged values, and compacts, so that
\* the data buffer holds no unreferenced record afterwards.
C18_DeleteFlight ==
    [][(IsDeleteFlight /\ ret'.key \in DOMAIN store.index)
          => FlightDeleted(SubSeq(ret'.key.s, Len(FLIGHT_KEY_PREFIX) + 1, Len(ret'.key.s)))]_vars

\* flight_001, which had two packets, was deleted; flight_002 is there with
\* its record
C18_Witness ==
    /\ ret = Ret("delete_flight", flight_key(FLIGHT_ID_PREFIX \o <<48, 48, 49>>), "Ok", 0)
    /\ hist.packets = 3
    /\ Len(Flights(store)) = 1
    /\ Flights(store)[1].flight_id = FLIGHT_ID_PREFIX \o <<48, 48, 50>>
    /\ Cardinality(TelemKeys(store, FLIGHT_ID_PREFIX \o <<48, 48, 50>>)) = 1
    /\ Cardinality(DOMAIN store.index) = 2

\* the keys flight:* of the index
MetadataKeys(s) ==
    {key \in DOMAIN s.index : key.tag = TAG_TEXT /\ starts_with(key.s, FLIGHT_KEY_PREFIX)}

\* q holds the records D, each once, in ascending order of the field f
SortedListOf(q, D, f) ==
    /\ Len(q) = Cardinality(D)
    /\ {q[k] : k \in 1..Len(q)} = D
    /\ \A k \in 1..(Len(q) - 1) : q[k][f] <= q[k + 1][f]

\* the packets stored for flight id: those under a key that is telem:<id>:
\* followed by the timestamp of its own packet
StoredPackets(s, id) ==
    {Unwrap(kp[2]) :
        kp \in {x \in {<<k, packet_of_get(get(s, k))>> : k \in DOMAIN s.index} :
                   /\ x[1].tag = TAG_TEXT
                   /\ IsSome(x[2])
                   /\ x[1] = telem_key(id, Unwrap(x[2]).timestamp)}}

\* C19: list_flights() returns one entry for every live flight:* key, ordered
\* by start_time ascending, and get_flight_data(id) returns exactly the
\* packets stored under telem:<id>:* (none of a flight whose id has <id> as a
\* prefix), ordered by timestamp ascending, whatever the iteration order of
\* the index.
C19_QueriesCompleteAndSorted ==
    \A order \in IterOrders(DOMAIN store.index) :
        /\ SortedListOf(list_flights(store, order),
                        {Unwrap(metadata_of_get(get(store, key))) : key \in MetadataKeys(store)},
                        "start_time")
        /\ Len(list_flights(store, order)) = Cardinality(MetadataKeys(store))
        /\ \A id \in FlightIds :
               SortedListOf(get_flight_data(store, id, order), StoredPackets(store, id),
                            "timestamp")

\* two flights with two packets each; the query for "flight_00", a prefix of
\* both ids, returns nothing
C19_Witness ==
    /\ Len(Flights(store)) = 2
    /\ \A k \in 1..2 :
           Len(get_flight_data(store, Flights(store)[k].flight_id,
                               SetToSeq(DOMAIN store.index))) = 2
    /\ get_flight_data(store, FLIGHT_ID_PREFIX \o <<48, 48>>, SetToSeq(DOMAIN store.index)) = <<>>

(***************************************************************************)
(* Store::load on snapshot files                                           *)
(***************************************************************************)

\* the bytes from pos on are complete (key_len, key, offset) entries and
\* nothing else
RECURSIVE CompleteEntries(_, _)
CompleteFrom(keys_buf, pos, key_len) ==
    /\ key_len # TooBig
    /\ pos + 4 + key_len + 8 <= Len(keys_buf)
    /\ CompleteEntries(keys_buf, pos + 4 + key_len + 8)

CompleteEntries(keys_buf, pos) ==
    IF pos = Len(keys_buf) THEN TRUE
    ELSE IF pos + 4 > Len(keys_buf) THEN FALSE
    ELSE CompleteFrom(keys_buf, pos, u_from_le_bytes(Slice(keys_buf, pos, pos + 4)))

ParsedCount(keys_buf) == Cardinality(DOMAIN parse_keys(keys_buf, 0, EmptyIndex).index)

\* what load is to return on the three files: the checks in their order
ExpectedLoad(meta_buf, keys_buf, data_buf) ==
    IF u_from_le_bytes(Slice(meta_buf, 0, 4)) # FILE_VERSION THEN "UnsupportedVersion"
    ELSE IF calculate_crc32(keys_buf) # Slice(meta_buf, 4, 8) THEN "FileCorrupted"
    ELSE IF calculate_crc32(data_buf) # Slice(meta_buf, 8, 12) THEN "FileCorrupted"
    ELSE IF ~CompleteEntries(keys_buf, 0) THEN "InvalidData"
    ELSE IF ParsedCount(keys_buf) # u_from_le_bytes(Slice(meta_buf, 12, 20)) THEN "FileCorrupted"
    ELSE "Ok"

\* load was the last step, on three files with a meta of full length
LoadedFiles == loaded.done /\ files_exist(disk) /\ Len(Unwrap(disk.meta)) >= META_SIZE

\* the keys file ends in one to three bytes after its last complete entry
ShortTail(keys_buf) ==
    \E n \in 1..3 :
        /\ n <= Len(keys_buf)
        /\ CompleteEntries(Slice(keys_buf, 0, Len(keys_buf) - n), 0)
        /\ ~CompleteEntries(keys_buf, 0)

\* C20: load fails with UnsupportedVersion when the version in meta is not 1,
\* with FileCorrupted when the CRC32 of the keys file or of the data file
\* differs from meta, with InvalidData when the keys file ends in bytes that
\* do not form a complete (key_len, key, offset) entry, with FileCorrupted
\* when the number of keys parsed differs from meta's entry count, and
\* returns Ok only when every check passes.
C20_LoadValidation ==
    LoadedFiles =>
        loaded.err = ExpectedLoad(Unwrap(disk.meta), Unwrap(disk.keys), Unwrap(disk.data))

\* load returned Ok on a keys file that ends in bytes of no entry
C20_TrailingBytesAccepted ==
    /\ LoadedFiles
    /\ loaded.err = "Ok"
    /\ ~CompleteEntries(Unwrap(disk.keys), 0)

\* the same statement for keys files that do not end in one to three bytes
\* after the last complete entry
C20_LoadValidationButShortTail ==
    (LoadedFiles /\ ~ShortTail(Unwrap(disk.keys))) =>
        loaded.err = ExpectedLoad(Unwrap(disk.meta), Unwrap(disk.keys), Unwrap(disk.data))

(***************************************************************************)
(* Properties of the snapshot files over the life of a Store               *)
(***************************************************************************)

\* the last save() stopped before its last write, after an earlier save that
\* made all three, and the files are as it left them
TornAfterSaved == ret.op \in {"save", "drop"} /\ IsSome(hist.attempt) /\ IsSome(saved)

LoadsAs(r, maps) == r.err = "Ok" /\ GetMap(r.store) \in maps

\* C21: when save() fails or the process stops after any strict prefix of the
\* writes (.meta, then .keys, then .data), the files still load, as the
\* complete previous snapshot or as the complete new one.
C21_AtomicSnapshot ==
    TornAfterSaved =>
        LoadsAs(load(disk, BASE_PATH), {Unwrap(saved).map, Unwrap(hist.attempt).map})

\* a save stopped after its first or second write, and the files that held a
\* snapshot with a live key no longer load
C21_PreviousSnapshotLost ==
    /\ TornAfterSaved
    /\ \E k \in StoreKeys : Unwrap(saved).map[k].err = "Ok"
    /\ load(disk, BASE_PATH).err = "FileCorrupted"

\* a load of the files of a save that stopped early never returns a store
\* that is neither snapshot: it fails, or gives the previous or the new one
C21_TornSaveDetected ==
    (TornAfterSaved /\ load(disk, BASE_PATH).err = "Ok") =>
        LoadsAs(load(disk, BASE_PATH), {Unwrap(saved).map, Unwrap(hist.attempt).map})

IsDrop == ret'.op = "drop" /\ hist'.restarts = hist.restarts + 1

\* with_path on the files d returns a store that holds the mapping m
OpensWith(r, m) ==
    /\ r.err = "Ok"
    /\ \A k \in StoreKeys : Outcome(get(r.store, k)) = Expected(m, k)

\* a drop step made the writes of one save() in their order, up to the n-th
OneSaveAttempt(n) ==
    \E comp_order \in IterOrders(DOMAIN store.index) :
      \E keys_order \in IterOrders(DOMAIN store.index) :
        disk' = written(disk, save(store, disk, comp_order, keys_order).disk, n)

C22_WitnessNoPath ==
    /\ ret.op = "drop"
    /\ DOMAIN live # {}
    /\ hist.attempt = None
    /\ IsSome(saved)
    /\ \A k \in StoreKeys : Unwrap(saved).map[k].err = "KeyNotFound"
    /\ OpensWith(load(disk, BASE_PATH), [k \in {} |-> ValueInt(0)])

\* some of the three files are there and some are not
Incomplete(d) ==
    /\ \E f \in FileNames : d[f] # None
    /\ \E f \in FileNames : d[f] = None

\* the three files are there and a CRC32 in meta is not that of its file
CrcMismatch(d) ==
    /\ files_exist(d)
    /\ \/ calculate_crc32(Unwrap(d.keys)) # Slice(Unwrap(d.meta), 4, 8)
       \/ calculate_crc32(Unwrap(d.data)) # Slice(Unwrap(d.meta), 8, 12)

\* C23: with_path on files that are corrupt (a CRC mismatch) or incomplete
\* (some of .meta/.keys/.data missing) returns an error and no store, so that
\* no later save or drop writes over the records saved before.
C23_CorruptionSurfaced ==
    (ret.op = "with_path" /\ (Incomplete(disk) \/ CrcMismatch(disk))) => ret.err # "Ok"

\* the same for the files with a CRC mismatch alone
C23_CrcMismatchSurfaced ==
    (ret.op = "with_path" /\ CrcMismatch(disk)) => ret.err # "Ok"

\* with_path gave an empty store on files of which one was lost, and the drop
\* of that store wrote an empty snapshot over the snapshot that held a live key
C23_SavedRecordsOverwritten ==
    /\ ret.op = "drop"
    /\ loaded.done /\ loaded.err = "Ok" /\ DOMAIN loaded.store.index = {}
    /\ IsSome(loaded.of)
    /\ \E k \in StoreKeys : Unwrap(loaded.of).map[k].err = "Ok"
    /\ files_exist(disk)
    /\ OpensWith(load(disk, BASE_PATH), [k \in {} |-> ValueInt(0)])

(***************************************************************************)
(* Properties of the storage lock                                          *)
(***************************************************************************)

\* save_packet taken in its two steps gives what it gives in one
SavePacketSteps ==
    \A sh \in Shapes :
        \A p \in {make_packet(sh, last_packet_time)} :
            save_packet_end(save_packet_begin(Self, p), p) = save_packet(Self, p)

\* the tasks that are inside a call on the storage or hold the guard after one
Holders ==
    (IF ingest.pc = "saving" THEN {IngestTask} ELSE {})
    \cup {r \in Requests : api[r].pc = "deleting"}
    \cup {s \in Subscribers : subs[s].pc = "backfill"}

ReadOps == {"list_flights", "get_flight", "get_flight_data"}

\* the step is a read by a handler, or the read of the backfill
IsRead ==
    \/ ret'.op \in ReadOps /\ ret' # ret
    \/ \E s \in Subscribers : subs[s].pc = "idle" /\ subs'[s].pc = "backfill"

\* the step begins a save_packet or a delete_flight
IsMutationStart ==
    \/ ingest.pc = "recv" /\ ingest'.pc = "saving"
    \/ \E r \in Requests : api[r].pc = "idle" /\ api'[r].pc = "deleting"
    \/ ret'.op = "delete_flight" /\ ret' # ret /\ \A r \in Requests : api[r].pc = "idle"

\* every flight that has metadata counts the telemetry records it has
Settled(s) ==
    \A k \in 1..Len(Flights(s)) :
        Flights(s)[k].packet_count = Cardinality(TelemKeys(s, Flights(s)[k].flight_id))

\* C24: save_packet, delete_flight, list_flights, get_flight, get_flight_data
\* and the backfill read run under the one storage lock from their first step
\* to their last: no two of them overlap, and a read is made only on the
\* storage as a finished call left it, never between the steps of save_packet
\* or delete_flight.
C24_MutualExclusion ==
    /\ [](/\ Cardinality(Holders) <= 1
          /\ Holders = IF lock = None THEN {} ELSE {Unwrap(lock)})
    /\ [][/\ (IsRead \/ IsMutationStart) => Holders = {}
          /\ IsRead => Settled(store)]_vars

\* the ingest task is between the two steps of save_packet, the telemetry
\* record put and the metadata not yet counting it, and holds the lock; a read
\* was made before
C24_Witness ==
    /\ ingest.pc = "saving"
    /\ lock = Some(IngestTask)
    /\ ~Settled(store)
    /\ ret.op \in ReadOps

\* a handler is between the two steps of delete_flight, the metadata key
\* deleted and the telemetry keys still there
C24_WitnessDelete ==
    \E r \in Requests :
        /\ api[r].pc = "deleting"
        /\ lock = Some(r)
        /\ get_flight(Self, api[r].flight_id) = None
        /\ TelemKeys(store, api[r].flight_id) # {}

(***************************************************************************)
(* Properties of the ingest task                                           *)
(***************************************************************************)

\* the step takes a binary frame of fewer than PACKET_SIZE bytes
IsShortFrame ==
    /\ ret'.op \in {"frame", "frame_dropped"}
    /\ ret'.n < PACKET_SIZE
    /\ ret' # ret \/ hist' # hist

Sleeping == ingest.pc \in {"sleep", "sleep_failed"}

\* C25: a frame of fewer than 113 bytes changes neither the store nor the
\* segmenter, publishes nothing and leaves the task reading the next frame;
\* after a close, an error or a failed connect the task comes to connect
\* again, and it always has a next step.
C25_IngestAbsorbsFailures ==
    /\ [][IsShortFrame =>
             /\ UNCHANGED <<store, segVars, lock, bus, ingest>>
             /\ ingest'.pc = "recv"]_vars
    /\ [](ENABLED <<IngestNext>>_vars)
    /\ (Sleeping ~> ingest.pc = "connect")

\* a frame one byte short was dropped on a connection that had delivered a
\* packet before
C25_Witness ==
    /\ ret.op = "frame_dropped"
    /\ ret.n = PACKET_SIZE - 1
    /\ Len(bus) >= 1
    /\ ingest.pc = "recv"

\* the task connected again after a connection on which it published a packet
C25_WitnessReconnect ==
    /\ ret.op = "connected"
    /\ Len(bus) >= 1
    /\ ingest.pc = "recv"

(***************************************************************************)
(* Properties of the metadata under timestamps that go back                *)
(***************************************************************************)

\* C26: every flight metadata record has end_time >= start_time, also after a
\* packet with a timestamp below the flight's start_time was accepted into
\* the open flight.
C26_EndNotBeforeStart ==
    \A k \in 1..Len(Flights(store)) :
        Flights(store)[k].end_time >= Flights(store)[k].start_time

\* in a build without overflow checks, the open flight took a packet with a
\* timestamp below its start_time and its end_time is that timestamp
C26_EndBeforeStart ==
    /\ hist.checks = Some(FALSE)
    /\ IsSome(current_flight_id)
    /\ \E k \in 1..Len(Flights(store)) :
           /\ Flights(store)[k].flight_id = Unwrap(current_flight_id)
           /\ Flights(store)[k].end_time = Unwrap(packet).timestamp
           /\ Flights(store)[k].end_time < Flights(store)[k].start_time

\* the same in a build with overflow checks: the panic left the metadata as it
\* was, and ended the task
C26_HoldsWithChecks == hist.checks # Some(FALSE) => C26_EndNotBeforeStart

\* in a build with overflow checks the same packet ends the task: its
\* telemetry record is stored, the metadata keeps its earlier end_time
C26_AbortedOnRegress ==
    /\ hist.aborted
    /\ IsSome(current_flight_id)
    /\ Unwrap(packet).timestamp < Unwrap(last_packet_time)

\* C34: after every packet accepted into an open flight the metadata has
\* end_time = packet.timestamp and duration_secs = (end_time - start_time) /
\* 1000, and the subtraction packet.timestamp - start_time on u64 never
\* underflows, whatever the timestamps: no wrapped value, no abort of the task.
C34_DurationNoUnderflow ==
    /\ ~hist.aborted
    /\ (IsSome(current_flight_id) /\ IsSome(packet)) =>
           \A m \in {get_flight(Self, Unwrap(current_flight_id))} :
               IsSome(m) =>
                   /\ Unwrap(m).end_time = Unwrap(packet).timestamp
                   /\ Unwrap(m).end_time >= Unwrap(m).start_time
                   /\ Unwrap(m).duration_secs =
                          (Unwrap(m).end_time - Unwrap(m).start_time) \div 1000

\* without overflow checks: the open flight took a packet 500 ms before its
\* start and its duration is the wrapped difference, near the top of the range
C34_DurationWrapped ==
    /\ hist.checks = Some(FALSE)
    /\ IsSome(current_flight_id)
    /\ \A m \in {get_flight(Self, Unwrap(current_flight_id))} :
           /\ IsSome(m)
           /\ Unwrap(packet).timestamp = Unwrap(m).start_time - 500
           /\ Unwrap(m).duration_secs = (U64_WRAP - 500) \div 1000

\* with overflow checks: the same packet ended the task, its telemetry record
\* stored and the metadata not updated
C34_TaskAborted ==
    /\ hist.checks = Some(TRUE)
    /\ hist.aborted
    /\ IsSome(current_flight_id)
    /\ \A m \in {get_flight(Self, Unwrap(current_flight_id))} :
           /\ IsSome(m)
           /\ Unwrap(m).end_time > Unwrap(packet).timestamp
           /\ Unwrap(m).packet_count < Cardinality(TelemKeys(store, Unwrap(current_flight_id)))

\* with timestamps that do not go below start_time the statement holds
C34_HoldsWithoutRegress == hist.checks = None => C34_DurationNoUnderflow

(***************************************************************************)
(* Properties of the checksum                                              *)
(***************************************************************************)
\* the checksum in the header of a record, and the one of its payload
ExpectedCrc(bytes) == Slice(bytes, 8, 12)
ActualCrc(bytes) == calculate_crc32(Slice(bytes, HEADER_SIZE, Len(bytes)))

\* C27: a serialized value with one bit of its payload (a byte at offset >= 13)
\* changed makes deserialize_value return ChecksumMismatch, with the checksum
\* of the payload different from the one in the header, and never an entry.
C27_CrcSensitivity ==
    ret.op = "flip_payload" =>
        /\ ret.result.err = "ChecksumMismatch"
        /\ ret.result.entry = NoEntry
        /\ ActualCrc(ret.bytes) # ExpectedCrc(ret.bytes)

\* "hello" with the lowest bit of byte 13 changed
C27_Witness ==
    /\ ret.op = "flip_payload"
    /\ ret.value = ValueString(Hello)
    /\ ret.at = Some(<<HEADER_SIZE, 0>>)
    /\ ret.bytes # serialize_value(ret.value)
    /\ ret.result.err = "ChecksumMismatch"

\* unchanged, every value of the run reads back as itself
C27_RoundTrip ==
    ret.op = "serialize_value" =>
        /\ ret.result.err = "Ok"
        /\ ret.result.entry = EntryOf(ret.value)
        /\ ret.result.n = Len(ret.bytes)

(***************************************************************************)
(* Properties of the phase classification                                  *)
(***************************************************************************)
\* the six labels, as their bytes
OnGroundLabel == <<79, 110, 32, 71, 114, 111, 117, 110, 100>>           \* "On Ground"
TakingOffLabel == <<84, 97, 107, 105, 110, 103, 32, 79, 102, 102>>      \* "Taking Off"
AscentLabel == <<65, 115, 99, 101, 110, 116>>                           \* "Ascent"
CruiseLabel == <<67, 114, 117, 105, 115, 101>>                          \* "Cruise"
DescentLabel == <<68, 101, 115, 99, 101, 110, 116>>                     \* "Descent"
LandingLabel == <<76, 97, 110, 100, 105, 110, 103>>                     \* "Landing"
SixLabels == {OnGroundLabel, TakingOffLabel, AscentLabel, CruiseLabel, DescentLabel,
              LandingLabel}

\* rules 2 to 10 in their order, with the thresholds in tenths: 2.0, 3.0,
\* 0.8, -0.8, 20.0, 140.0
PhaseRules(on_ground, moving, climbing, descending, below_20, above_20, below_140, from_140) ==
    << [when |-> on_ground /\ ~moving, label |-> OnGroundLabel],
       [when |-> on_ground /\ moving, label |-> TakingOffLabel],
       [when |-> below_20 /\ descending, label |-> LandingLabel],
       [when |-> ~on_ground /\ climbing /\ below_140, label |-> AscentLabel],
       [when |-> from_140 /\ ~climbing /\ ~descending, label |-> CruiseLabel],
       [when |-> descending /\ above_20, label |-> DescentLabel],
       [when |-> climbing, label |-> AscentLabel],
       [when |-> ~on_ground, label |-> CruiseLabel],
       [when |-> TRUE, label |-> OnGroundLabel] >>

RulesOf(p) ==
    PhaseRules(f32_lt(p.altitude_baro, 20), f32_ge(p.ground_speed, 30),
               f32_gt(p.vertical_speed, 8), f32_lt(p.vertical_speed, -8),
               f32_lt(p.altitude_baro, 200), f32_gt(p.altitude_baro, 200),
               f32_lt(p.altitude_baro, 1400), f32_ge(p.altitude_baro, 1400))

FirstMatch(rules) ==
    rules[CHOOSE k \in 1..Len(rules) :
              rules[k].when /\ \A j \in 1..(k - 1) : ~rules[j].when].label

\* C28: for every combination of altitude_baro, vertical_speed and
\* ground_speed the phase returned is the label of the first rule that
\* matches among rules 2 to 10, and is one of the six labels.
C28_PhaseRuleOrder ==
    ret.op = "get_flight_phase" =>
        /\ ret.phase = FirstMatch(RulesOf(Unwrap(packet)))
        /\ ret.phase \in SixLabels

\* a packet that a later rule matches too (on the ground, moving and
\* descending: rules 3 and 4) was classified by the earlier one
C28_Witness ==
    /\ ret.op = "get_flight_phase"
    /\ RulesOf(Unwrap(packet))[2].when
    /\ RulesOf(Unwrap(packet))[3].when
    /\ ret.phase = TakingOffLabel

\* a packet whose three values are not numbers was classified
C28_WitnessNaN ==
    /\ ret.op = "get_flight_phase"
    /\ Unwrap(packet).altitude_baro = NaN
    /\ Unwrap(packet).vertical_speed = NaN
    /\ Unwrap(packet).ground_speed = NaN
    /\ ret.phase = CruiseLabel

\* every label is returned for some packet of the run
C28_WitnessDescent == ret.op = "get_flight_phase" /\ ret.phase = DescentLabel
C28_WitnessLanding == ret.op = "get_flight_phase" /\ ret.phase = LandingLabel

(***************************************************************************)
(* Properties of the two ways a flight is closed                           *)
(***************************************************************************)
\* the metadata m of the open flight, and n after the step, of a flight the
\* timeout closed: only ended_normally and distance_km may differ
CatastrophicFields(m, n, distance) ==
    /\ ~n.ended_normally
    /\ n.distance_km = distance
    /\ n.current_status = m.current_status
    /\ n.end_time = m.end_time
    /\ n.packet_count = m.packet_count
    /\ [n EXCEPT !.ended_normally = m.ended_normally, !.distance_km = m.distance_km] = m

\* the fields of the segmenter after a step that closed flight id: they are
\* reset, or are those of a flight the same packet began
ResetAfterClose(id, p) ==
    /\ landing_check_start' = None
    /\ \/ /\ current_flight_id' = None
          /\ flight_state' = "OnGround"
          /\ total_distance_km' = 0
          /\ last_phase' = None
       \/ /\ IsSome(current_flight_id') /\ Unwrap(current_flight_id') # id
          /\ flight_state' = "InFlight"
          /\ total_distance_km' = 0
          /\ \A n \in {get_flight([store |-> store'], Unwrap(current_flight_id'))} :
                 /\ IsSome(n)
                 /\ Unwrap(n).packet_count = 1
                 /\ Unwrap(n).start_time = p.timestamp
                 /\ last_phase' = Some(Unwrap(n).current_status)

\* a save_packet step taken while flight id is open with metadata m, after a
\* silence of gap milliseconds
CloseStep(id, m, n, gap, p) ==
    /\ gap > 60000 =>
           /\ IsSome(n)
           /\ CatastrophicFields(Unwrap(m), Unwrap(n), total_distance_km)
           /\ ResetAfterClose(id, p)
           /\ ~OnGroundPacket(last_position, p) <=> IsSome(current_flight_id')
    /\ (gap <= 60000 /\ current_flight_id' # Some(id)) =>
           /\ flight_state = "Landing"
           /\ ResetAfterClose(id, p)
           /\ current_flight_id' = None

\* C29: a close by timeout changes, in the flight's metadata, only
\* ended_normally (to false) and distance_km, keeping current_status, end_time
\* and packet_count, and forces the state to OnGround (the packet is then
\* classified from there); a normal close and a close by timeout both reset
\* current_flight_id, landing_check_start, total_distance_km and last_phase.
C29_ClosingSemantics ==
    [][(IsSavePacket /\ IsSome(current_flight_id) /\ IsSome(last_packet_time)
        /\ IsSome(get_flight(Self, Unwrap(current_flight_id))))
          => CloseStep(Unwrap(current_flight_id),
                       get_flight(Self, Unwrap(current_flight_id)),
                       get_flight([store |-> store'], Unwrap(current_flight_id)),
                       Unwrap(packet').timestamp - Unwrap(last_packet_time),
                       Unwrap(packet'))]_vars

\* a flight with two packets and a distance flown was closed by the timeout
\* while the state was Landing, its status not "Landed", and no flight began
C29_Witness ==
    /\ Len(Flights(store)) = 1
    /\ ~Flights(store)[1].ended_normally
    /\ Flights(store)[1].current_status # STATUS_LANDED
    /\ Flights(store)[1].packet_count >= 2
    /\ Flights(store)[1].distance_km > 0
    /\ current_flight_id = None
    /\ flight_state = "OnGround"
    /\ Unwrap(packet).timestamp > Flights(store)[1].end_time + 60000

\* a flight was closed normally
C29_WitnessNormal ==
    /\ Len(Flights(store)) = 1
    /\ Flights(store)[1].ended_normally
    /\ Flights(store)[1].current_status = STATUS_LANDED
    /\ current_flight_id = None
    /\ hist.confirmed > 0

\* a flight was closed by the timeout and the same packet began the next
C29_WitnessNextFlight ==
    /\ Len(Flights(store)) = 2
    /\ ~Flights(store)[1].ended_normally
    /\ IsSome(current_flight_id)
    /\ Flights(store)[2].start_time > Flights(store)[1].end_time + 60000

(***************************************************************************)
(* Properties of the index                                                 *)
(***************************************************************************)
\* the record of store s at the offset of key k, as deserialize_value reads it
RecordAt(s, k) == deserialize_value(Slice(s.data, s.index[k], Len(s.data)))

\* the offsets at which the records of a buffer start, garbage included
RECURSIVE RecordStarts(_, _)
RecordStarts(buf, pos) ==
    IF pos >= Len(buf) \/ deserialize_value(Slice(buf, pos, Len(buf))).err # "Ok" THEN {}
    ELSE {pos} \cup RecordStarts(buf, pos + deserialize_value(Slice(buf, pos, Len(buf))).n)

\* the offset of key k is the start of a complete record inside the buffer
WellFormedAt(s, k) ==
    /\ s.index[k] \in RecordStarts(s.data, 0)
    /\ RecordAt(s, k).err = "Ok"
    /\ RecordAt(s, k).n >= HEADER_SIZE
    /\ s.index[k] + RecordAt(s, k).n <= Len(s.data)

\* the records of two keys share no byte
Apart(s, j, k) ==
    \/ s.index[j] + RecordAt(s, j).n <= s.index[k]
    \/ s.index[k] + RecordAt(s, k).n <= s.index[j]

\* C30: after any sequence of put, delete, compact and clear, every offset of
\* the index is the start of a complete well-formed record lying wholly inside
\* the data buffer, distinct keys point to distinct records that do not
\* overlap, and the sizes of the live records add up to no more than the
\* size of the buffer.
C30_IndexWellFormed ==
    /\ \A k \in DOMAIN store.index : WellFormedAt(store, k)
    /\ \A j, k \in DOMAIN store.index : j # k => Apart(store, j, k)
    /\ active_size(store) <= Len(store.data)

\* two keys are live, one of them put twice, with the garbage of the first put
\* and of a deleted or overwritten record still in the buffer
C30_Witness ==
    /\ Cardinality(DOMAIN store.index) = 2
    /\ Len(buffer_iter(store)) = MaxRecords
    /\ active_size(store) < Len(store.data)
    /\ \E k \in DOMAIN store.index : store.index[k] > 0 /\ RecordAt(store, k).err = "Ok"

\* the same after a compaction moved a record to the start of the buffer
C30_WitnessCompacted ==
    /\ ret.op = "compact"
    /\ Cardinality(DOMAIN store.index) = 2
    /\ active_size(store) = Len(store.data)
    /\ ret.n > 0

(***************************************************************************)
(* Properties of the operations that decode, on records that do not decode *)
(***************************************************************************)
\* some live record of store s cannot be decoded
Undecodable(s) == \E k \in DOMAIN s.index : RecordAt(s, k).err # "Ok"

\* the errors compact returns
CompactErrors == {"InvalidData", "DataCorruption"}

\* C31: compact replaces the buffer and the index together, and only after
\* every live record was copied; when the decoding of a live record fails,
\* compact returns an error and the buffer and the index are as before.
C31_CompactAtomic ==
    [][(ret'.op = "compact" /\ Reopened) =>
          IF Undecodable(store)
          THEN ret'.err \in CompactErrors /\ store' = store
          ELSE ret'.err = "Ok" /\ GetMap(store') = GetMap(store)
               /\ Len(store'.data) = active_size(store')]_vars

\* compact ran on a Store of which a live key has an offset beyond the
\* buffer, and did not return
C31_CompactPanics ==
    /\ ret.op = "compact"
    /\ ret.err = "panic"
    /\ \E k \in DOMAIN store.index : store.index[k] > Len(store.data)

\* whenever compact does not succeed, by an error or by a panic, the buffer
\* and the index are as before the call
C31_UnchangedOnFailure ==
    [][(ret'.op = "compact" /\ Reopened /\ ret'.err # "Ok") => store' = store]_vars

\* compact returned an error on a record with a checksum mismatch
C31_WitnessError ==
    /\ ret.op = "compact"
    /\ ret.err \in CompactErrors
    /\ \E k \in DOMAIN store.index : RecordAt(store, k).err = "ChecksumMismatch"

\* how a failure of the codec is to be reported by the store
Surface(e) ==
    IF e = "Ok" THEN "Ok" ELSE IF e = "ChecksumMismatch" THEN "DataCorruption" ELSE "InvalidData"

\* the offset at which the walk of a buffer from pos stops: its end, or the
\* start of the first record that does not decode
RECURSIVE WalkEnd(_, _)
WalkEnd(buf, pos) ==
    IF pos >= Len(buf) \/ deserialize_value(Slice(buf, pos, Len(buf))).err # "Ok" THEN pos
    ELSE WalkEnd(buf, pos + deserialize_value(Slice(buf, pos, Len(buf))).n)

\* the results of a walk of the buffer: Ok for each record up to the first
\* that does not decode, then the failure of that one, reported once
WalkSurfaced(s, results) ==
    /\ \A k \in 1..Cardinality(RecordStarts(s.data, 0)) : results[k] = "Ok"
    /\ IF WalkEnd(s.data, 0) >= Len(s.data)
       THEN Len(results) = Cardinality(RecordStarts(s.data, 0))
       ELSE /\ Len(results) = Cardinality(RecordStarts(s.data, 0)) + 1
            /\ results[Len(results)] =
                   Surface(deserialize_value(Slice(s.data, WalkEnd(s.data, 0), Len(s.data))).err)

\* the first key of the order whose record does not decode
FirstUndecodable(s, order) ==
    order[CHOOSE k \in 1..Len(order) :
              /\ RecordAt(s, order[k]).err # "Ok"
              /\ \A j \in 1..(k - 1) : RecordAt(s, order[j]).err = "Ok"]

\* get, values and buffer_iter report a checksum mismatch as DataCorruption
\* and any other failure to decode as InvalidData
ReadsSurfaced ==
    /\ (ret.op = "get" /\ ret.key \in DOMAIN store.index) =>
           ret.err = Surface(RecordAt(store, ret.key).err)
    /\ ret.op = "values" =>
           \A key \in DOMAIN store.index : ret.err[key] = Surface(RecordAt(store, key).err)
    /\ ret.op = "buffer_iter" => WalkSurfaced(store, ret.err)

\* C33: a checksum mismatch on a stored record is reported as DataCorruption
\* and any other failure to decode it as InvalidData by get, iter/values,
\* buffer_iter and compact; none reports a checksum mismatch as InvalidData
\* or passes over the record.
C33_MismatchIsDataCorruption ==
    Reopened =>
        /\ ReadsSurfaced
        /\ (ret.op = "compact" /\ ret.err \in CompactErrors) =>
               ret.err = Surface(RecordAt(store, FirstUndecodable(store, ret.order)).err)

\* compact stopped at a record with a checksum mismatch and returned
\* InvalidData, where get on its key returns DataCorruption
C33_CompactInvalidData ==
    /\ Reopened
    /\ ret.op = "compact"
    /\ ret.err = "InvalidData"
    /\ RecordAt(store, FirstUndecodable(store, ret.order)).err = "ChecksumMismatch"
    /\ get(store, FirstUndecodable(store, ret.order)).err = "DataCorruption"

\* the statement for get, values and buffer_iter alone
C33_ReadsSurfaced == Reopened => ReadsSurfaced

\* get reported a checksum mismatch on the first of two records, and the walk
\* of the buffer stopped there
C33_WitnessGet ==
    /\ Reopened /\ ret.op = "get" /\ ret.err = "DataCorruption"
    /\ Cardinality(DOMAIN store.index) = 2
    /\ store.index[ret.key] = 0
    /\ Len(buffer_iter(store)) = 1

(***************************************************************************)
(* Properties of the policy of save                                        *)
(***************************************************************************)
\* the bytes of the buffer of s that belong to no record of its index
Unreferenced(s, ks) ==
    Len(s.data) - SumRange([k \in 1..Len(ks) |-> RecordAt(s, ks[k]).n], 1, Len(ks))

\* more than 35% of the buffer is unreferenced
Over35(s) ==
    Len(s.data) > 0 /\ 100 * Unreferenced(s, SetToSeq(DOMAIN s.index)) > 35 * Len(s.data)

\* the files after the first n writes of a save of store s over files d:
\* meta, then keys, then data, each describing s, the others as they were
WrittenInOrder(s, d, e, n) ==
    /\ IF n >= 1
       THEN /\ e.meta # None
            /\ Slice(Unwrap(e.meta), 8, 12) = calculate_crc32(s.data)
            /\ u_from_le_bytes(Slice(Unwrap(e.meta), 12, 20)) = Cardinality(DOMAIN s.index)
       ELSE e.meta = d.meta
    /\ IF n >= 2
       THEN /\ e.keys # None
            /\ calculate_crc32(Unwrap(e.keys)) = Slice(Unwrap(e.meta), 4, 8)
            /\ parse_keys(Unwrap(e.keys), 0, EmptyIndex).index = s.index
       ELSE e.keys = d.keys
    /\ IF n >= 3 THEN e.data = Some(s.data) ELSE e.data = d.data

\* C32: save compacts first if and only if more than 35% of the buffer is
\* unreferenced at the call, so that the data file of a successful save has at
\* most 35% unreferenced bytes; the files are written in the order meta, keys,
\* data, and a write that fails is returned to the caller.
C32_SavePolicy ==
    [][ret'.op = "save" =>
          /\ IF Over35(store)
             THEN /\ Unreferenced(store', SetToSeq(DOMAIN store'.index)) = 0
                  /\ GetMap(store') = GetMap(store)
             ELSE store' = store
          /\ ~Over35(store')
          /\ WrittenInOrder(store', disk, disk', ret'.n)
          /\ ret'.err = IF ret'.n = WritesPerSave THEN "Ok" ELSE "IoError"]_vars

\* a save that did not compact wrote a data file with garbage, of no more
\* than 35%
C32_Witness ==
    /\ ret.op = "save" /\ ret.err = "Ok"
    /\ disk.data = Some(store.data)
    /\ Unreferenced(store, SetToSeq(DOMAIN store.index)) > 0
    /\ ~Over35(store)

\* a save compacted a buffer with just over 35% of garbage
C32_WitnessCompacted ==
    /\ ret.op = "save" /\ ret.err = "Ok"
    /\ IsSome(saved) /\ Unwrap(saved).compacted
    /\ Cardinality(DOMAIN store.index) = 2
    /\ disk.data = Some(store.data)
    /\ Unreferenced(store, SetToSeq(DOMAIN store.index)) = 0

\* a save stopped after the keys file: meta and keys are new, data is not
C32_WitnessStopped ==
    /\ ret.op = "save" /\ ret.err = "IoError" /\ ret.n = 2
    /\ disk.data # Some(store.data)
    /\ files_exist(disk)

(***************************************************************************)
(* Properties of the fields of the segmenter taken together                *)
(***************************************************************************)
\* C35: after every save_packet, and after any delete_flight,
\* current_flight_id is set if and only if flight_state is InFlight or
\* Landing, and landing_check_start is set if and only if flight_state is
\* Landing.
C35_StateConsistency ==
    /\ IsSome(current_flight_id) <=> flight_state \in {"InFlight", "Landing"}
    /\ IsSome(landing_check_start) <=> flight_state = "Landing"

\* a landing was confirmed: the timer ran, the flight was closed and the
\* three fields were reset together
C35_Witness ==
    /\ hist.confirmed >= 5000
    /\ flight_state = "OnGround"
    /\ current_flight_id = None
    /\ landing_check_start = None
    /\ Len(Flights(store)) = 1

\* the open flight was deleted while the landing was being timed
C35_WitnessDeleted ==
    /\ ret.op = "delete_flight" /\ ret.err = "Ok"
    /\ flight_state = "Landing"
    /\ IsSome(landing_check_start)
    /\ IsSome(current_flight_id)
    /\ get_flight(Self, Unwrap(current_flight_id)) = None

\* C36: under every interleaving of the ingest task with a subscriber task,
\* no packet is delivered to the same subscriber twice: a packet included in
\* the backfill is never also received on the live tail.
C36_NoDuplicateDelivery ==
    \A s \in Subscribers :
        \A i, j \in 1..Len(subs[s].delivered) :
            subs[s].delivered[i].json = subs[s].delivered[j].json => i = j

\* the flight holds one packet, published once; a subscriber was sent it as
\* backfill and then again from its receiver, which was created between the
\* save_packet and the publication
C36_DeliveredTwice ==
    \E s \in Subscribers :
        /\ Len(bus) = 1
        /\ Len(subs[s].delivered) = 2
        /\ ~subs[s].delivered[1].live
        /\ subs[s].delivered[2].live
        /\ subs[s].delivered[1].json = packet_to_json(bus[1])
        /\ subs[s].delivered[2].json = packet_to_json(bus[1])
        /\ subs[s].from = Some(0)

\* a packet is sent twice only as a packet of the backfill that is also the
\* first packet of the live tail, the one the ingest task had saved and not
\* yet published when the receiver was created
C36_OnceWhenPublishedBefore ==
    \A s \in Subscribers :
        \A i, j \in 1..Len(subs[s].delivered) :
            /\ subs[s].delivered[i].json = subs[s].delivered[j].json
            /\ i < j
            => /\ ~subs[s].delivered[i].live
               /\ subs[s].delivered[j].live
               /\ j = Len(SelectSeq(subs[s].delivered, IsBackfill)) + 1
               /\ subs[s].delivered[j].json = packet_to_json(bus[Unwrap(subs[s].from) + 1])

(***************************************************************************)
(* Properties of a load after a save that stopped early                    *)
(***************************************************************************)
\* the previous snapshot and the one the save that stopped was writing
TornMaps == {Unwrap(saved).map, Unwrap(hist.attempt).map}

\* the save that stopped made n of its writes and the two snapshots differ
TornAt(n) ==
    /\ TornAfterSaved
    /\ Unwrap(hist.attempt).n = n
    /\ Unwrap(saved).map # Unwrap(hist.attempt).map

\* C37: if a save is interrupted after writing a strict prefix of (.meta,
\* .keys, .data) over an existing snapshot, a load never succeeds with a store
\* that mixes old and new files: it fails with FileCorrupted or an I/O error,
\* or returns a live mapping equal to the complete previous or the complete
\* new snapshot.
C37_TornSnapshotsDetected ==
    TornAfterSaved =>
        \A r \in {load(disk, BASE_PATH)} :
            /\ Unwrap(hist.attempt).n < WritesPerSave
            /\ \/ r.err \in {"FileCorrupted", "IoError"}
               \/ LoadsAs(r, TornMaps)

\* new .meta over the files of a different snapshot: the load fails
C37_Witness == TornAt(1) /\ load(disk, BASE_PATH).err = "FileCorrupted"

\* new .meta and .keys with the .data of a different snapshot
C37_WitnessTwoWrites == TornAt(2) /\ load(disk, BASE_PATH).err = "FileCorrupted"

\* the save stopped before its first write: the previous snapshot loads
C37_WitnessNoWrite ==
    /\ TornAt(0)
    /\ LoadsAs(load(disk, BASE_PATH), {Unwrap(saved).map})

\* the save that stopped was writing the files that were there: the load
\* succeeds on a prefix of the new files over the equal old ones
C37_WitnessSameFiles ==
    /\ TornAfterSaved
    /\ Unwrap(hist.attempt).n = 2
    /\ LoadsAs(load(disk, BASE_PATH), TornMaps)

(***************************************************************************)
(* Properties of the telemetry records against the flight records          *)
(***************************************************************************)
\* the ids a run can allocate
RunIds == {FLIGHT_ID_PREFIX \o Digits03(n) : n \in 1..MaxFlightPackets}

\* the keys telem:<id>:* of s whose flight:<id> key is not in the index
Orphans(s) ==
    {key \in DOMAIN s.index :
        /\ key.tag = TAG_TEXT
        /\ starts_with(key.s, TELEM_KEY_PREFIX)
        /\ ~\E id \in RunIds :
               starts_with(key.s, telem_prefix(id)) /\ flight_key(id) \in DOMAIN s.index}

\* C38: in every state reachable by interleaving save_packet with
\* delete_flight, every live telem:<id>:* record has a live flight:<id>
\* metadata record; deleting the open flight does not let later packets be
\* stored under its id without metadata, and a later flight allocated the
\* same id does not inherit records of the deleted flight.
C38_NoOrphanTelemetry == Orphans(store) = {}

\* the open flight was deleted and the next packet was stored under its id,
\* which has no metadata record
C38_OrphanStored ==
    /\ hist.packets = 2
    /\ current_flight_id = Some(FLIGHT_ID_PREFIX \o <<48, 48, 49>>)
    /\ get_flight(Self, FLIGHT_ID_PREFIX \o <<48, 48, 49>>) = None
    /\ Cardinality(TelemKeys(store, FLIGHT_ID_PREFIX \o <<48, 48, 49>>)) = 1
    /\ Orphans(store) = TelemKeys(store, FLIGHT_ID_PREFIX \o <<48, 48, 49>>)

\* after a timeout the id of the deleted flight was allocated again: the new
\* flight_001 counts one packet and get_flight_data returns two, the first of
\* them a packet of the deleted flight
C38_RecordsInherited ==
    /\ hist.packets = 3
    /\ hist.takeoffs = 2
    /\ current_flight_id = Some(FLIGHT_ID_PREFIX \o <<48, 48, 49>>)
    /\ Len(Flights(store)) = 1
    /\ Flights(store)[1].packet_count = 1
    /\ Flights(store)[1].start_time = Unwrap(last_packet_time)
    /\ Cardinality(TelemKeys(store, FLIGHT_ID_PREFIX \o <<48, 48, 49>>)) = 2
    /\ Orphans(store) = {}

\* a record without metadata appears only in a save_packet that stores its
\* packet under an open flight whose flight:<id> record was deleted
C38_OrphansOnlyAfterDeleteOfOpen ==
    [][(Orphans(store) = {} /\ Orphans(store') # {}) =>
          /\ IsSavePacket
          /\ IsSome(current_flight_id)
          /\ current_flight_id' = current_flight_id
          /\ flight_key(Unwrap(current_flight_id)) \notin DOMAIN store.index
          /\ Orphans(store') = {telem_key(Unwrap(current_flight_id), Unwrap(packet').timestamp)}]_vars

(***************************************************************************)
(* Properties of the ingest task beside subscribers that stop reading      *)
(***************************************************************************)
\* the n-th frame was decoded and the task waits for the guard
FrameDecoded(n) == ingest.pc = "lock" /\ Len(ingest.saved) = n - 1

\* the packet of the n-th frame was passed to save_packet and published
FramePublished(n) ==
    /\ Len(ingest.saved) >= n
    /\ Len(bus) >= n
    /\ bus[n] = ingest.saved[n].packet

\* C39: under fair scheduling, every successfully decoded upstream frame is
\* eventually passed to save_packet and published, even if some subscriber
\* stops reading from its socket at any point of its onboarding or live
\* streaming.
C39_IngestProgress ==
    \A n \in 1..MaxStallFrames : FrameDecoded(n) ~> FramePublished(n)

\* a frame is decoded and the ingest task waits for the guard, which a
\* subscriber holds through the send of a backfill packet
C39_IngestBehindBackfillSend ==
    \E s \in Subscribers :
        /\ FrameDecoded(2)
        /\ lock = Some(s)
        /\ subs[s].pc = "backfill"
        /\ Len(subs[s].pending) = 1

\* the same statement on the runs in which no subscriber keeps the guard for
\* ever: stalled sends of the live tail do not hold the ingest task
C39_ProgressWhenBackfillEnds ==
    (\A s \in Subscribers : []<>(lock # Some(s))) => C39_IngestProgress

\* a subscriber is in the send of a live packet while the next frame waits
C39_WitnessLiveSend ==
    \E s \in Subscribers :
        /\ FrameDecoded(2)
        /\ subs[s].pc = "send"
        /\ lock = None

(***************************************************************************)
(* Properties of the packet that closes a flight                           *)
(***************************************************************************)
\* the step took flight id, whose metadata was m, to n by a timeout although
\* the segmenter was timing a landing
TimeoutInLanding(m, n) ==
    /\ ~n.ended_normally
    /\ n.current_status = m.current_status
    /\ landing_check_start' = None

\* the packet p of the step that closed flight id went to none of its records
ClosingPacketNotRecorded(id, m, n, p) ==
    /\ TelemKeys(store', id) = TelemKeys(store, id)
    /\ \A key \in TelemKeys(store, id) : Outcome(get(store', key)) = Outcome(get(store, key))
    /\ n.packet_count = m.packet_count
    /\ n.end_time = m.end_time
    /\ n.end_time = Unwrap(last_packet_time)
    /\ current_flight_id' # None =>
           telem_key(Unwrap(current_flight_id'), p.timestamp) \in DOMAIN store'.index

ClosingStep(id, m, n, gap, p) ==
    /\ IsSome(n)
    /\ (flight_state = "Landing" /\ gap > 60000) =>
           /\ TimeoutInLanding(Unwrap(m), Unwrap(n))
           /\ current_flight_id' # Some(id)
    /\ current_flight_id' # Some(id) =>
           /\ ClosingPacketNotRecorded(id, Unwrap(m), Unwrap(n), p)
           /\ Unwrap(n).ended_normally <=> (flight_state = "Landing" /\ gap <= 60000)

\* C40: if a packet arrives while the segmenter is Landing with a gap over
\* 60000 ms since the previous packet, the flight is closed catastrophically
\* (ended_normally = false) even though the on-ground duration also exceeds
\* 5000 ms; and in both kinds of close the packet that triggers the close is
\* not stored under the closed flight, whose packet_count and end_time stay
\* those of the previous accepted packet.
C40_TimeoutPrecedence ==
    [][(IsSavePacket /\ IsSome(current_flight_id) /\ IsSome(last_packet_time)
        /\ IsSome(get_flight(Self, Unwrap(current_flight_id))))
          => ClosingStep(Unwrap(current_flight_id),
                         get_flight(Self, Unwrap(current_flight_id)),
                         get_flight([store |-> store'], Unwrap(current_flight_id)),
                         Unwrap(packet').timestamp - Unwrap(last_packet_time),
                         Unwrap(packet'))]_vars

\* an on-ground packet came 61 s after the one that began the landing: the
\* flight is closed by the timeout, not "Landed", with the two packets it had
C40_Witness ==
    /\ hist.packets = 3
    /\ OnGroundPacket(None, Unwrap(packet))
    /\ flight_state = "OnGround"
    /\ current_flight_id = None
    /\ Len(Flights(store)) = 1
    /\ ~Flights(store)[1].ended_normally
    /\ Flights(store)[1].current_status # STATUS_LANDED
    /\ Flights(store)[1].packet_count = 2
    /\ Unwrap(packet).timestamp = Flights(store)[1].end_time + 61000
    /\ Cardinality(TelemKeys(store, Flights(store)[1].flight_id)) = 2

\* a landing was confirmed: the flight is "Landed" and ends at the packet
\* before the one that confirmed it
C40_WitnessNormal ==
    /\ hist.confirmed >= 5000
    /\ current_flight_id = None
    /\ Len(Flights(store)) = 1
    /\ Flights(store)[1].ended_normally
    /\ Flights(store)[1].current_status = STATUS_LANDED
    /\ Flights(store)[1].end_time < Unwrap(packet).timestamp
    /\ Flights(store)[1].packet_count = Cardinality(TelemKeys(store, Flights(store)[1].flight_id))

\* the packet that met the timeout in Landing was airborne and began the
\* next flight, where it is stored
C40_WitnessNextFlight ==
    /\ Len(Flights(store)) = 2
    /\ ~Flights(store)[1].ended_normally
    /\ hist.confirmed = 0 /\ hist.returns = 0
    /\ Flights(store)[1].packet_count >= 2
    /\ current_flight_id = Some(Flights(store)[2].flight_id)
    /\ Flights(store)[2].start_time = Flights(store)[1].end_time + 61000
    /\ Flights(store)[2].packet_count = 1

=============================================================================
